---- MODULE Spec2Model ----
(***************************************************************************)
(* Rate resolution and caching of the currency converter.                  *)
(*                                                                         *)
(* Server side: the convert, symbols and timeseries endpoints, each with a *)
(* file cache and a catch block.  Client side: CurrencyAPI with its        *)
(* in-memory Map cache, calling the endpoints through request().           *)
(*                                                                         *)
(* Units.  Amounts and results are integers in thousandths (1.004 is       *)
(* 1004); rates are integers in units of 10^-7; the static table holds     *)
(* hundredths (0.85 is 85).  Floating point is modelled by exact decimal   *)
(* arithmetic.  Time is in seconds (the client's Date.now() is now*1000).  *)
(***************************************************************************)
EXTENDS Integers, Sequences, FiniteSets, TLC

VARIABLES
    family,       \* the endpoint family the run exercises
    now,          \* the clock, seconds
    convCache,    \* server: api/cache/convert_<key>.json files
    symCache,     \* server: api/cache/symbols.json
    tsCache,      \* server: api/cache/timeseries_<key>.json files
    clientCache,  \* client: CurrencyAPI.cache (a Map)
    last,         \* the most recent request and what it returned
    hist,         \* the request before it (history, not program state)
    dataFile,     \* server: api/data/history.json
    localStorage, \* client: the items currency_history and currencyHistory
    clock,        \* the time of the newest record stored anywhere
    reply,        \* the most recent history operation and what it returned
    posts,        \* POST requests to history.php being handled
    calls,        \* rate requests under way, step by step
    ui            \* the page: the chart and the converter form

vars ==
    <<family, now, convCache, symCache, tsCache, clientCache, last, hist,
      dataFile, localStorage, clock, reply, posts, calls, ui>>

\* The state of the rate operations and the state of the conversion history
rateVars ==
    <<now, convCache, symCache, tsCache, clientCache, last, hist, calls,
      ui>>

historyVars == <<dataFile, localStorage, clock, reply, posts>>

-----------------------------------------------------------------------------
(* Bounds and time *)

\* The last instant of the clock.
MaxTime == 3600

\* The instants the clock visits: they put the age of an entry below, at
\* and above the TTLs of 300 and 1800 seconds, and below and at (or just
\* above) the TTL of 3600 seconds.
Times == {0, 150, 300, 1800, MaxTime}

Families == {"convert", "symbols", "timeseries"}

-----------------------------------------------------------------------------
(* Program constants *)

\* $cacheTime of the convert endpoint
ConvertCacheTime == 300

\* $cacheTime of the symbols endpoint
SymbolsCacheTime == 3600

\* $cacheTime of the timeseries endpoint
TimeseriesCacheTime == 1800

\* this.cacheTimeout, milliseconds
cacheTimeout == 5 * 60 * 1000

\* $rates of the convert endpoint's catch block, in hundredths
rates ==
    [USD |-> 100, EUR |-> 85, GBP |-> 73, JPY |-> 11000, CHF |-> 92,
     CAD |-> 125, AUD |-> 135, CNY |-> 645, RUB |-> 7500, INR |-> 7400,
     BRL |-> 520, KRW |-> 118000, MXN |-> 2000, SGD |-> 135, HKD |-> 780,
     NOK |-> 850, SEK |-> 870, DKK |-> 630, PLN |-> 390, CZK |-> 2150]

\* this.fallbackRates of CurrencyAPI, in hundredths
fallbackRates ==
    [USD |-> 100, EUR |-> 85, GBP |-> 73, JPY |-> 11000, CHF |-> 92,
     CAD |-> 125, AUD |-> 135, CNY |-> 645, RUB |-> 7500, INR |-> 7400,
     BRL |-> 520, KRW |-> 118000, MXN |-> 2000, SGD |-> 135, HKD |-> 780,
     NOK |-> 850, SEK |-> 870, DKK |-> 630, PLN |-> 390, CZK |-> 2150]

\* $fallbackSymbols of the symbols endpoint (the codes)
fallbackSymbolsServer ==
    {"USD", "EUR", "GBP", "JPY", "CHF", "CAD", "AUD", "CNY", "RUB", "INR",
     "BRL", "KRW", "MXN", "SGD", "HKD", "NOK", "SEK", "DKK", "PLN", "CZK",
     "TL", "UA"}

\* this.fallbackSymbols of CurrencyAPI (the codes)
fallbackSymbols ==
    {"USD", "EUR", "GBP", "JPY", "CHF", "CAD", "AUD", "CNY", "RUB", "INR",
     "BRL", "KRW", "MXN", "SGD", "HKD", "NOK", "SEK", "DKK", "PLN", "CZK"}

-----------------------------------------------------------------------------
(* The external provider (api.fxratesapi.com), as the endpoints see it *)

\* The provider's rates in hundredths: the static codes at other values,
\* and TRY, which the static table does not hold.
liveRates ==
    [USD |-> 100, EUR |-> 92, GBP |-> 79, JPY |-> 15000, CHF |-> 88,
     CAD |-> 136, AUD |-> 152, CNY |-> 720, RUB |-> 9000, INR |-> 8300,
     BRL |-> 500, KRW |-> 135000, MXN |-> 1700, SGD |-> 134, HKD |-> 780,
     NOK |-> 1050, SEK |-> 1040, DKK |-> 690, PLN |-> 400, CZK |-> 2300,
     TRY |-> 3400]

LiveCodes == DOMAIN liveRates

\* What one call of the provider can end in.  "ok" is a well-formed
\* success; "ok_empty" is success = true without the payload (no symbols,
\* no rates); the other three are the failures the endpoints test for:
\* file_get_contents false, a JSON parse error, success missing or false.
UpstreamOutcomes == {"ok", "ok_empty", "network", "badjson", "error"}

\* The three failures: $response === false, json_last_error(), !$data['success']
UpstreamFailed(up) == up \in {"network", "badjson", "error"}

\* What a request records of the provider's condition
UpClass(up) == IF UpstreamFailed(up) THEN "failed" ELSE up

-----------------------------------------------------------------------------
(* Strings and numbers *)

\* strtoupper / String.prototype.toUpperCase on the codes of the model
UpperTable == [usd |-> "USD", eur |-> "EUR", xyz |-> "XYZ"]

Upper(s) == IF s \in DOMAIN UpperTable THEN UpperTable[s] ELSE s

\* PHP empty() of a string parameter: "" (also a missing one, by ?? '')
Empty(s) == s = ""

\* n / d rounded to the nearest integer, halves away from zero (PHP round)
RoundDiv(n, d) ==
    IF n >= 0 THEN (2 * n + d) \div (2 * d)
    ELSE 0 - ((2 * (0 - n) + d) \div (2 * d))

\* n / d rounded as Math.round does: floor(x + 0.5)
MathRound(n, d) == (2 * n + d) \div (2 * d)

\* <<quotient, remainder>> of n * 10^k by d, digit by digit (n, d > 0), so
\* that no intermediate product leaves the 32-bit integers of the checker
RECURSIVE DivScaled(_, _, _)
DivScaled(n, d, k) ==
    IF k = 0 THEN <<n \div d, n % d>>
    ELSE LET p == DivScaled(n, d, k - 1)
         IN  <<p[1] * 10 + (p[2] * 10) \div d, (p[2] * 10) % d>>

\* n / d to k decimals, halves up (n, d > 0), in units of 10^-k
RoundScaled(n, d, k) ==
    LET p == DivScaled(n, d, k)
    IN  p[1] + (IF 2 * p[2] >= d THEN 1 ELSE 0)

-----------------------------------------------------------------------------
(* Requests and responses *)

\* The parameters of a request as the caller gives them.  from and to are
\* "" when missing; hasArg is FALSE when amount (or days) is missing; arg
\* is the amount in thousandths, or the days.
Query(from, to, hasArg, arg) ==
    [from |-> from, to |-> to, hasArg |-> hasArg, arg |-> arg]

NoQuery == Query("", "", FALSE, 0)

\* A response body with nothing in it.  http is the status code (0: the
\* client threw instead of returning); cached is "true", "false" or
\* "absent" (the field is not in the body).
NoResp ==
    [http |-> 0, success |-> FALSE, error |-> "", from |-> "", to |-> "",
     amount |-> 0, result |-> 0, rate |-> 0, cached |-> "absent",
     fallback |-> FALSE, symbols |-> {}, days |-> 0, series |-> "none",
     count |-> 0, span |-> 0]

\* No cache entry served the response.
NoAge == 0 - 1

NoFile == [k \in {} |-> NoResp]

Has(trace, tok) == \E i \in 1..Len(trace) : trace[i] = tok

\* IsFresh with an entry of exactly $cacheTime seconds still served
IsFreshInclusive(cache, key, t, cacheTime) ==
    /\ key \in DOMAIN cache
    /\ (t - cache[key].mtime) <= cacheTime

\* PutFile that leaves the cache directory as it was
PutFileSkipped(cache, key, t, data) == cache

\* The cache test of the three endpoints:
\* file_exists($cacheFile) && (time() - filemtime($cacheFile)) < $cacheTime
IsFresh(cache, key, t, cacheTime) ==
    /\ key \in DOMAIN cache
    /\ (t - cache[key].mtime) < cacheTime

\* file_put_contents($cacheFile, json_encode($result)).  content tells
\* what a reader finds in the file: "json" (the whole text), "empty" (no
\* byte) or "torn" (a part of the text, which is no JSON).
PutFile(cache, key, t, data) ==
    [k \in DOMAIN cache \cup {key} |->
        IF k = key THEN [mtime |-> t, data |-> data, content |-> "json"]
        ELSE cache[k]]

\* if ($cachedData): file_get_contents gave a string that is not ''
NonEmpty(entry) == entry.content # "empty"

\* json_decode($cachedData, true): the stored array, or null, which the
\* assignment of $cached['cached'] turns into an array of that one key
JsonDecode(entry) ==
    IF entry.content = "json" THEN entry.data
    ELSE [NoResp EXCEPT !.http = 200]

\* echo $cachedData: the stored text as the body, whatever it is
Echo(entry) ==
    IF entry.content = "json" THEN entry.data
    ELSE [NoResp EXCEPT !.http = 200, !.error = "malformed"]

-----------------------------------------------------------------------------
(* Server: the convert endpoint *)

\* empty($amount): a missing parameter ('' by ??) or "0"
EmptyAmount(q) == ~q.hasArg \/ q.arg = 0

\* The try block up to the cache: what $from, $to and $amount hold when it
\* throws or goes on.  numeric is FALSE while $amount is still the string ''.
ConvertValidate(q) ==
    IF Empty(q.from) \/ Empty(q.to) \/ EmptyAmount(q)
    THEN [ok |-> FALSE, from |-> q.from, to |-> q.to,
          numeric |-> q.hasArg, amount |-> q.arg]
    ELSE IF q.arg <= 0
    THEN [ok |-> FALSE, from |-> Upper(q.from), to |-> Upper(q.to),
          numeric |-> TRUE, amount |-> q.arg]
    ELSE IF Upper(q.from) = Upper(q.to)
    THEN [ok |-> FALSE, from |-> Upper(q.from), to |-> Upper(q.to),
          numeric |-> TRUE, amount |-> q.arg]
    ELSE [ok |-> TRUE, from |-> Upper(q.from), to |-> Upper(q.to),
          numeric |-> TRUE, amount |-> q.arg]

\* $cacheKey = md5($from . $to . $amount); md5 is taken to be injective
ConvertCacheKey(from, to, amount) == from \o to \o ToString(amount)

\* The provider's answer to /convert: a success only for codes it knows.
UpstreamConvertOk(from, to, up) ==
    up = "ok" /\ from \in LiveCodes /\ to \in LiveCodes

\* The live response: the provider's query, result and info.rate
ConvertLive(from, to, amount) ==
    [NoResp EXCEPT !.http = 200, !.success = TRUE, !.from = from, !.to = to,
        !.amount = amount,
        !.result = RoundDiv(amount * liveRates[to], liveRates[from]),
        !.rate = RoundScaled(liveRates[to], liveRates[from], 7),
        !.cached = "false"]

\* The isset test of the catch block
ConvertSupported(from, to) == from \in DOMAIN rates /\ to \in DOMAIN rates

\* ConvertCatch cutting the result off after two decimals
ConvertCatchTruncated(v, php8) ==
    LET rf == IF v.from \in DOMAIN rates THEN rates[v.from] ELSE 1
        rt == IF v.to \in DOMAIN rates THEN rates[v.to] ELSE 0
    IN  [tok |-> "s.fallback.ok",
         resp |-> [NoResp EXCEPT !.http = 200, !.success = TRUE,
                      !.from = v.from, !.to = v.to, !.amount = v.amount,
                      !.result = 10 * ((v.amount * rt) \div (10 * rf)),
                      !.rate = 10 * RoundScaled(rt, rf, 6),
                      !.cached = "false", !.fallback = TRUE]]

\* ConvertCatch answering every exception with the 400
ConvertCatchNoTable(v, php8) ==
    [tok |-> "s.fallback.unsupported",
     resp |-> [NoResp EXCEPT !.http = 400, !.error = "unsupported"]]

\* ConvertCatch without its isset test: a code the table lacks counts 0
ConvertCatchNoIsset(v, php8) ==
    LET rf == IF v.from \in DOMAIN rates THEN rates[v.from] ELSE 1
        rt == IF v.to \in DOMAIN rates THEN rates[v.to] ELSE 0
    IN  [tok |-> "s.fallback.ok",
         resp |-> [NoResp EXCEPT !.http = 200, !.success = TRUE,
                      !.from = v.from, !.to = v.to, !.amount = v.amount,
                      !.result = 10 * RoundDiv(v.amount * rt, 10 * rf),
                      !.rate = 10 * RoundScaled(rt, rf, 6),
                      !.cached = "false", !.fallback = TRUE]]

\* The catch block: the static table.  With $amount still '' the product
\* $amount * $rate is a TypeError on PHP 8 (an empty 500) and 0 on PHP 7.
ConvertCatch(v, php8) ==
    IF ~ConvertSupported(v.from, v.to)
    THEN [tok |-> "s.fallback.unsupported",
          resp |-> [NoResp EXCEPT !.http = 400, !.error = "unsupported"]]
    ELSE IF ~v.numeric /\ php8
    THEN [tok |-> "s.fallback.crash", resp |-> [NoResp EXCEPT !.http = 500]]
    ELSE [tok |-> "s.fallback.ok",
          resp |-> [NoResp EXCEPT !.http = 200, !.success = TRUE,
                       !.from = v.from, !.to = v.to, !.amount = v.amount,
                       !.result = 10 * RoundDiv(v.amount * rates[v.to],
                                                10 * rates[v.from]),
                       !.rate = 10 * RoundScaled(rates[v.to], rates[v.from],
                                                 6),
                       !.cached = "false", !.fallback = TRUE]]

\* ServerConvert calling the provider a second time after a failure
ServerConvertRetry(cache, t, q, up, php8) ==
    LET v == ConvertValidate(q)
        key == ConvertCacheKey(v.from, v.to, v.amount)
        caught == ConvertCatch(v, php8)
    IN  IF ~v.ok
        THEN [resp |-> caught.resp, trace |-> <<"s.invalid", caught.tok>>,
              cache |-> cache, hitAge |-> NoAge]
        ELSE IF IsFresh(cache, key, t, ConvertCacheTime)
                /\ NonEmpty(cache[key])
        THEN [resp |-> [JsonDecode(cache[key]) EXCEPT !.cached = "true"],
              trace |-> <<"s.cache.hit">>,
              cache |-> cache, hitAge |-> t - cache[key].mtime]
        ELSE IF UpstreamConvertOk(v.from, v.to, up)
        THEN [resp |-> ConvertLive(v.from, v.to, v.amount),
              trace |-> <<"s.cache.miss", "live.ok">>,
              cache |-> PutFile(cache, key, t,
                                ConvertLive(v.from, v.to, v.amount)),
              hitAge |-> NoAge]
        ELSE [resp |-> caught.resp,
              trace |-> <<"s.cache.miss", "live.fail", "live.fail",
                          caught.tok>>,
              cache |-> cache, hitAge |-> NoAge]

\* One run of the convert endpoint on cache `cache` at time t
ServerConvert(cache, t, q, up, php8) ==
    LET v == ConvertValidate(q)
        key == ConvertCacheKey(v.from, v.to, v.amount)
        caught == ConvertCatch(v, php8)
    IN  IF ~v.ok
        THEN [resp |-> caught.resp, trace |-> <<"s.invalid", caught.tok>>,
              cache |-> cache, hitAge |-> NoAge]
        ELSE IF IsFresh(cache, key, t, ConvertCacheTime)
                /\ NonEmpty(cache[key])
        THEN [resp |-> [JsonDecode(cache[key]) EXCEPT !.cached = "true"],
              trace |-> <<"s.cache.hit">>,
              cache |-> cache, hitAge |-> t - cache[key].mtime]
        ELSE IF UpstreamConvertOk(v.from, v.to, up)
        THEN [resp |-> ConvertLive(v.from, v.to, v.amount),
              trace |-> <<"s.cache.miss", "live.ok">>,
              cache |-> PutFile(cache, key, t,
                                ConvertLive(v.from, v.to, v.amount)),
              hitAge |-> NoAge]
        ELSE [resp |-> caught.resp,
              trace |-> <<"s.cache.miss", "live.fail", caught.tok>>,
              cache |-> cache, hitAge |-> NoAge]

-----------------------------------------------------------------------------
(* Client: CurrencyAPI.convert *)

\* What request() can end in: the endpoint answers, or fetch fails
Backends == {"up", "down"}

\* The guard of convert: !from || !to || !amount || amount <= 0
ClientConvertInvalid(q) ==
    q.from = "" \/ q.to = "" \/ ~q.hasArg \/ q.arg = 0 \/ q.arg <= 0

\* The test of the catch block: !this.fallbackRates[fromUpper] || ...
ClientSupported(from, to) ==
    from \in DOMAIN fallbackRates /\ to \in DOMAIN fallbackRates

\* ClientConvertCatch cutting the result off after two decimals
ClientConvertCatchFloor(q) ==
    LET rf == IF Upper(q.from) \in DOMAIN fallbackRates
              THEN fallbackRates[Upper(q.from)] ELSE 1
        rt == IF Upper(q.to) \in DOMAIN fallbackRates
              THEN fallbackRates[Upper(q.to)] ELSE 0
    IN  [tok |-> "c.fallback.ok",
         resp |-> [NoResp EXCEPT !.success = TRUE, !.from = Upper(q.from),
                      !.to = Upper(q.to), !.amount = q.arg,
                      !.result = 10 * ((q.arg * rt) \div (10 * rf)),
                      !.rate = 10 * RoundScaled(rt, rf, 6),
                      !.fallback = TRUE]]

\* The catch block of convert: the built-in rates
ClientConvertCatch(q) ==
    LET fromUpper == Upper(q.from)
        toUpper == Upper(q.to)
    IN  IF ~ClientSupported(fromUpper, toUpper)
        THEN [tok |-> "c.fallback.unsupported",
              resp |-> [NoResp EXCEPT !.error = "unsupported"]]
        ELSE [tok |-> "c.fallback.ok",
              resp |-> [NoResp EXCEPT !.success = TRUE, !.from = fromUpper,
                           !.to = toUpper, !.amount = q.arg,
                           !.result = 10 * MathRound(
                               q.arg * fallbackRates[toUpper],
                               10 * fallbackRates[fromUpper]),
                           !.rate = 10 * RoundScaled(fallbackRates[toUpper],
                                        fallbackRates[fromUpper], 6),
                           !.fallback = TRUE]]

\* One run of CurrencyAPI.convert; the endpoint runs inside request().
\* response.ok is false on the endpoint's 400 and 500, and request throws.
ClientConvert(cache, t, q, backend, up) ==
    LET sq == Query(Upper(q.from), Upper(q.to), TRUE, q.arg)
        r == ServerConvert(cache, t, sq, up, TRUE)
        caught == ClientConvertCatch(q)
    IN  IF ClientConvertInvalid(q)
        THEN [resp |-> [NoResp EXCEPT !.error = "invalid"],
              trace |-> <<"c.invalid">>, cache |-> cache,
              hitAge |-> NoAge]
        ELSE IF backend = "down"
        THEN [resp |-> caught.resp,
              trace |-> <<"backend.fail", caught.tok>>, cache |-> cache,
              hitAge |-> NoAge]
        ELSE IF r.resp.http = 200
        THEN [resp |-> r.resp,
              trace |-> r.trace \o <<"backend.ok">>, cache |-> r.cache,
              hitAge |-> r.hitAge]
        ELSE [resp |-> caught.resp,
              trace |-> r.trace \o <<"backend.fail", caught.tok>>,
              cache |-> r.cache, hitAge |-> r.hitAge]

-----------------------------------------------------------------------------
(* Server: the symbols endpoint *)

SymbolsFile == "symbols"

\* The catch block: the built-in symbols
SymbolsCatch ==
    [NoResp EXCEPT !.http = 200, !.success = TRUE,
        !.symbols = fallbackSymbolsServer, !.cached = "false",
        !.fallback = TRUE]

\* $result of the try block: 'symbols' => $data['symbols'] ?? []
SymbolsLive(up) ==
    [NoResp EXCEPT !.http = 200, !.success = TRUE,
        !.symbols = IF up = "ok" THEN LiveCodes ELSE {},
        !.cached = "false"]

\* One run of the symbols endpoint.  A hit echoes the file as it is.
ServerSymbols(cache, t, up) ==
    IF IsFresh(cache, SymbolsFile, t, SymbolsCacheTime)
        /\ NonEmpty(cache[SymbolsFile])
    THEN [resp |-> Echo(cache[SymbolsFile]), trace |-> <<"s.cache.hit">>,
          cache |-> cache, hitAge |-> t - cache[SymbolsFile].mtime]
    ELSE IF UpstreamFailed(up)
    THEN [resp |-> SymbolsCatch,
          trace |-> <<"s.cache.miss", "live.fail", "s.fallback.ok">>,
          cache |-> cache, hitAge |-> NoAge]
    ELSE [resp |-> SymbolsLive(up),
          trace |-> <<"s.cache.miss", "live.ok">>,
          cache |-> PutFile(cache, SymbolsFile, t, SymbolsLive(up)),
          hitAge |-> NoAge]

-----------------------------------------------------------------------------
(* Server: the timeseries endpoint *)

\* intval($_GET['days'] ?? 30), then max(1, min($days, 365))
TimeseriesDays(q) ==
    LET days == IF q.hasArg THEN q.arg ELSE 30
        capped == IF days < 365 THEN days ELSE 365
    IN  IF capped > 1 THEN capped ELSE 1

\* $cacheKey = md5($from . $to . $days)
TimeseriesCacheKey(from, to, days) == from \o to \o ToString(days)

\* The catch block: every exception is answered with a 400
TimeseriesCatch(message) ==
    [NoResp EXCEPT !.http = 400, !.error = message]

\* What the provider can answer to /timeseries: as for the other calls,
\* and a success whose rates miss one date of the range ("ok_partial")
TimeseriesUpstream == UpstreamOutcomes \cup {"ok_partial"}

\* $result of the try block.  The rates are the provider's ("live": one
\* for each date it sent a rate of $to for, copied as they come) or, when
\* none is usable, generateMockData's ("mock": for $i = $days down to 0,
\* $days + 1 entries around 1.0).  span is the $days of start_date.
TimeseriesResult(from, to, days, up) ==
    [NoResp EXCEPT !.http = 200, !.success = TRUE, !.from = from,
        !.to = to, !.days = days,
        !.series = IF up \in {"ok", "ok_partial"} THEN "live" ELSE "mock",
        !.count = IF up = "ok_partial" THEN days ELSE days + 1,
        !.span = days, !.cached = "false"]

\* The provider's answer to /timeseries: a failure for a base it does not
\* know
UpstreamTimeseriesFailed(from, to, up) ==
    UpstreamFailed(up) \/ from \notin LiveCodes

\* Rates the endpoint can use: the provider sent the target's rates
UpstreamTimeseriesRates(to, up) ==
    IF up \in {"ok", "ok_partial"} /\ to \in LiveCodes THEN up ELSE "ok_empty"

\* One run of the timeseries endpoint
ServerTimeseries(cache, t, q, up) ==
    LET from == Upper(q.from)
        to == Upper(q.to)
        days == TimeseriesDays(q)
        key == TimeseriesCacheKey(from, to, days)
        result ==
            TimeseriesResult(from, to, days, UpstreamTimeseriesRates(to, up))
    IN  IF Empty(q.from) \/ Empty(q.to)
        THEN [resp |-> TimeseriesCatch("invalid"),
              trace |-> <<"s.invalid", "s.error">>, cache |-> cache,
              hitAge |-> NoAge]
        ELSE IF IsFresh(cache, key, t, TimeseriesCacheTime)
                /\ NonEmpty(cache[key])
        THEN [resp |-> [JsonDecode(cache[key]) EXCEPT !.cached = "true"],
              trace |-> <<"s.cache.hit">>, cache |-> cache,
              hitAge |-> t - cache[key].mtime]
        ELSE IF UpstreamTimeseriesFailed(from, to, up)
        THEN [resp |-> TimeseriesCatch("upstream"),
              trace |-> <<"s.cache.miss", "live.fail", "s.error">>,
              cache |-> cache, hitAge |-> NoAge]
        ELSE [resp |-> result, trace |-> <<"s.cache.miss", "live.ok">>,
              cache |-> PutFile(cache, key, t, result), hitAge |-> NoAge]

-----------------------------------------------------------------------------
(* Client: the Map cache, getSymbols and getTimeSeries *)

\* ClientFresh with a cacheTimeout of one hour
ClientFreshHour(cache, key, t) ==
    /\ key \in DOMAIN cache
    /\ (t - cache[key].mtime) * 1000 < 60 * 60 * 1000

\* this.cache.has(cacheKey) &&
\* Date.now() - cached.timestamp < this.cacheTimeout (milliseconds)
ClientFresh(cache, key, t) ==
    /\ key \in DOMAIN cache
    /\ (t - cache[key].mtime) * 1000 < cacheTimeout

\* this.cache.set(cacheKey, { data, timestamp: Date.now() })
CacheSet(cache, key, t, data) ==
    [k \in DOMAIN cache \cup {key} |->
        IF k = key THEN [mtime |-> t, data |-> data] ELSE cache[k]]

SymbolsKey == "symbols"

\* fallbackData of getSymbols
ClientSymbolsFallback ==
    [NoResp EXCEPT !.success = TRUE, !.symbols = fallbackSymbols,
        !.cached = "false", !.fallback = TRUE]

\* CacheFallback that does not store the static result
CacheFallbackSkipped(cache, key, t, data) == cache

\* Whether the catch block of getSymbols and of getTimeSeries stores what
\* it returns ("Кэшируем fallback данные")
CacheFallback(cache, key, t, data) == CacheSet(cache, key, t, data)

\* One run of getSymbols.  The symbols endpoint always answers 200.
ClientGetSymbols(ccache, scache, t, backend, up) ==
    LET r == ServerSymbols(scache, t, up)
    IN  IF ClientFresh(ccache, SymbolsKey, t)
        THEN [resp |-> ccache[SymbolsKey].data, trace |-> <<"c.cache.hit">>,
              ccache |-> ccache, scache |-> scache, shitAge |-> NoAge,
              chitAge |-> t - ccache[SymbolsKey].mtime]
        ELSE IF backend = "up"
        THEN [resp |-> r.resp,
              trace |-> <<"c.cache.miss">> \o r.trace \o <<"backend.ok">>,
              ccache |-> CacheSet(ccache, SymbolsKey, t, r.resp),
              scache |-> r.cache, shitAge |-> r.hitAge, chitAge |-> NoAge]
        ELSE [resp |-> ClientSymbolsFallback,
              trace |-> <<"c.cache.miss", "backend.fail", "c.fallback.ok">>,
              ccache |-> CacheFallback(ccache, SymbolsKey, t,
                                       ClientSymbolsFallback),
              scache |-> scache, shitAge |-> NoAge, chitAge |-> NoAge]

\* `timeseries_${from}_${to}_${days}`, of the arguments as given
ClientTimeseriesKey(q) ==
    "timeseries_" \o q.from \o "_" \o q.to \o "_" \o ToString(q.arg)

\* result of getTimeSeries' catch block: for i = days down to 0 an entry
\* around the static rate ("static") under the key
\* date.toISOString().split("T")[0], the UTC date of the local day
\* today - i.  sameKey: two local days of the range have the same UTC
\* date (the range crosses a change of the UTC offset), and the later
\* entry overwrites the earlier.  The object has no success and no cached
\* field.
ClientTimeseriesFallback(q, sameKey) ==
    [NoResp EXCEPT !.from = Upper(q.from), !.to = Upper(q.to),
        !.series = "static",
        !.count = IF q.arg < 0 THEN 0
                  ELSE IF sameKey /\ q.arg >= 1 THEN q.arg
                  ELSE q.arg + 1,
        !.span = q.arg,
        !.fallback = TRUE]

\* One run of getTimeSeries (days given; from and to are strings)
ClientGetTimeSeries(ccache, scache, t, q, backend, up, sameKey) ==
    LET key == ClientTimeseriesKey(q)
        sq == Query(Upper(q.from), Upper(q.to), TRUE, q.arg)
        r == ServerTimeseries(scache, t, sq, up)
        reached == backend = "up"
        strace == IF reached THEN r.trace ELSE <<>>
        supported == ClientSupported(Upper(q.from), Upper(q.to))
    IN  IF ClientFresh(ccache, key, t)
        THEN [resp |-> ccache[key].data, trace |-> <<"c.cache.hit">>,
              ccache |-> ccache, scache |-> scache, shitAge |-> NoAge,
              chitAge |-> t - ccache[key].mtime]
        ELSE IF reached /\ r.resp.http = 200
        THEN [resp |-> r.resp,
              trace |-> <<"c.cache.miss">> \o r.trace \o <<"backend.ok">>,
              ccache |-> CacheSet(ccache, key, t, r.resp),
              scache |-> r.cache, shitAge |-> r.hitAge, chitAge |-> NoAge]
        ELSE IF ~supported
        THEN [resp |-> [NoResp EXCEPT !.error = "unsupported"],
              trace |-> <<"c.cache.miss">> \o strace
                        \o <<"backend.fail", "c.fallback.unsupported">>,
              ccache |-> ccache, scache |-> scache, shitAge |-> NoAge,
              chitAge |-> NoAge]
        ELSE [resp |-> ClientTimeseriesFallback(q, sameKey),
              trace |-> <<"c.cache.miss">> \o strace
                        \o <<"backend.fail", "c.fallback.ok">>,
              ccache |-> CacheFallback(ccache, key, t,
                                       ClientTimeseriesFallback(q, sameKey)),
              scache |-> scache, shitAge |-> NoAge, chitAge |-> NoAge]

-----------------------------------------------------------------------------
(* Server: the history endpoint *)

\* $maxRecords of history.php
maxRecords == 50

\* array_slice($history, 0, 10) of handleGetHistory
listLimit == 10

\* $requiredFields of handlePostHistory
requiredFields == {"from", "to", "amount", "result", "rate"}

\* A history record.  fields are the required members the object has;
\* id and timestamp are 0 when the object has none.  Amounts are in
\* thousandths and rates in 10^-7, as in the convert responses; date, id
\* and timestamp are readings of the clock.
HistoryRecord(fields, from, to, amount, result, rate, date) ==
    [fields |-> fields, from |-> from, to |-> to, amount |-> amount,
     result |-> result, rate |-> rate, date |-> date, id |-> 0,
     timestamp |-> 0]

NoRecord == HistoryRecord({}, "", "", 0, 0, 0, 0)

\* A store: history.json, or an item of localStorage
NoStore == [exists |-> FALSE, records |-> <<>>]

\* What a history operation answers
NoAnswer ==
    [http |-> 0, success |-> FALSE, error |-> "", history |-> <<>>,
     count |-> 0, fallback |-> FALSE]

\* array_slice($history, 0, $n), history.slice(0, n), history.splice(n)
Take(history, n) ==
    SubSeq(history, 1, IF Len(history) < n THEN Len(history) ELSE n)

\* The history read from a store: [] when there is no file (no item)
LoadHistory(store) == IF store.exists THEN store.records ELSE <<>>

\* handleGetHistory without its array_slice
handleGetHistoryAll(file) ==
    LET history == LoadHistory(file)
    IN  [NoAnswer EXCEPT !.http = 200, !.success = TRUE,
            !.history = history, !.count = Len(history)]

\* handleGetHistory: the first 10 records of the file
handleGetHistory(file) ==
    LET history == Take(LoadHistory(file), listLimit)
    IN  [NoAnswer EXCEPT !.http = 200, !.success = TRUE,
            !.history = history, !.count = Len(history)]

\* The validation of handlePostHistory: "" when the record passes, else
\* the exception thrown
PostValidate(input) ==
    IF input.fields = {} THEN "badjson"
    ELSE IF ~(requiredFields \subseteq input.fields) THEN "missing"
    ELSE IF Empty(input.from) \/ Empty(input.to) THEN "emptycode"
    ELSE IF input.amount <= 0 \/ input.result <= 0 \/ input.rate <= 0
    THEN "nonpositive"
    ELSE ""

\* $newRecord: id is uniqid(), timestamp is time()
NewRecord(input, t) ==
    [input EXCEPT !.fields = requiredFields, !.from = Upper(input.from),
        !.to = Upper(input.to), !.id = t, !.timestamp = t]

\* PostStore without its array_slice
PostStoreUnbounded(history, record) ==
    [exists |-> TRUE, records |-> <<record>> \o history]

\* handlePostHistory after the history was loaded: array_unshift,
\* array_slice to $maxRecords, file_put_contents
PostStore(history, record) ==
    [exists |-> TRUE, records |-> Take(<<record>> \o history, maxRecords)]

\* The catch block of history.php: every exception is answered with a 500
HistoryCatch(message) == [NoAnswer EXCEPT !.http = 500, !.error = message]

\* handlePostHistory, one request at a time
handlePostHistory(file, input, t) ==
    IF PostValidate(input) # ""
    THEN [resp |-> HistoryCatch(PostValidate(input)), file |-> file]
    ELSE [resp |-> [NoAnswer EXCEPT !.http = 200, !.success = TRUE,
                       !.count = Len(PostStore(LoadHistory(file),
                                     NewRecord(input, t)).records)],
          file |-> PostStore(LoadHistory(file), NewRecord(input, t))]

\* handleDeleteHistory: unlink the file if it is there
handleDeleteHistory(file) ==
    [resp |-> [NoAnswer EXCEPT !.http = 200, !.success = TRUE],
     file |-> NoStore]

-----------------------------------------------------------------------------
(* Client: the history functions of CurrencyAPI, and the React variant *)

\* history.splice(50) of saveHistoryToStorage
storageLimit == 50

\* localHistory.slice(0, 10) of the React variant's saveHistory
reactLimit == 10

\* getHistoryFromStorage: the item parsed, [] when there is none
getHistoryFromStorage(item) == LoadHistory(item)

\* saveHistoryToStorage: unshift the record as it is, splice, setItem
saveHistoryToStorage(item, record) ==
    [exists |-> TRUE,
     records |-> Take(<<record>> \o getHistoryFromStorage(item),
                      storageLimit)]

\* clearHistoryFromStorage: removeItem
clearHistoryFromStorage(item) == NoStore

\* What a function of the client returned without throwing
Returned(history, fallback) ==
    [NoAnswer EXCEPT !.success = TRUE, !.history = history,
        !.count = Len(history), !.fallback = fallback]

\* CurrencyAPI.getHistory: data.history of the endpoint, or the item of
\* localStorage when the request fails
getHistory(file, item, backend) ==
    IF backend = "up"
    THEN [resp |-> Returned(handleGetHistory(file).history, FALSE),
          trace |-> <<"get.ok">>]
    ELSE [resp |-> Returned(getHistoryFromStorage(item), FALSE),
          trace |-> <<"backend.fail", "local.read">>]

\* CurrencyAPI.saveHistory: POST to the endpoint; request() throws on a
\* failed fetch and on a status that is not ok, and the catch block then
\* saves the record in localStorage and returns success
saveHistory(file, item, input, backend, t) ==
    LET r == handlePostHistory(file, input, t)
    IN  IF backend = "up" /\ r.resp.http = 200
        THEN [resp |-> r.resp, file |-> r.file, item |-> item,
              trace |-> <<"post.ok">>]
        ELSE [resp |-> Returned(<<>>, FALSE), file |-> file,
              item |-> saveHistoryToStorage(item, input),
              trace |-> IF backend = "up"
                        THEN <<"post.rejected", "local.saved">>
                        ELSE <<"backend.fail", "local.saved">>]

\* CurrencyAPI.clearHistory: DELETE on the endpoint, or removeItem when
\* the request fails
clearHistory(file, item, backend) ==
    IF backend = "up"
    THEN [resp |-> handleDeleteHistory(file).resp,
          file |-> handleDeleteHistory(file).file, item |-> item,
          trace |-> <<"delete.ok">>]
    ELSE [resp |-> Returned(<<>>, FALSE), file |-> file,
          item |-> clearHistoryFromStorage(item),
          trace |-> <<"backend.fail", "local.cleared">>]

\* React variant, getHistory: the endpoint's answer as it is, or the item
\* currencyHistory marked fallback
ReactGetHistory(file, item, backend) ==
    IF backend = "up"
    THEN [resp |-> handleGetHistory(file), trace |-> <<"get.ok">>]
    ELSE [resp |-> Returned(LoadHistory(item), TRUE),
          trace |-> <<"backend.fail", "local.read">>]

\* React variant, saveHistory: as saveHistory, keeping 10 records
ReactSaveHistory(file, item, input, backend, t) ==
    LET r == handlePostHistory(file, input, t)
    IN  IF backend = "up" /\ r.resp.http = 200
        THEN [resp |-> r.resp, file |-> r.file, item |-> item,
              trace |-> <<"post.ok">>]
        ELSE [resp |-> Returned(<<>>, TRUE), file |-> file,
              item |-> [exists |-> TRUE,
                        records |-> Take(<<input>> \o LoadHistory(item),
                                         reactLimit)],
              trace |-> IF backend = "up"
                        THEN <<"post.rejected", "local.saved">>
                        ELSE <<"backend.fail", "local.saved">>]

\* React variant, clearHistory of the History component: removeItem of
\* currencyHistory; the endpoint is not called
ReactClearHistory(file, item) ==
    [resp |-> Returned(<<>>, FALSE), file |-> file, item |-> NoStore,
     trace |-> <<"local.cleared">>]

-----------------------------------------------------------------------------
(* The state of the history *)

\* The POST requests that can be in the endpoint at the same time
MaxRequests == 3

Requests == 1..MaxRequests

NoReply ==
    [side |-> "none", op |-> "none", input |-> NoRecord,
     backend |-> "none", trace |-> <<>>, resp |-> NoAnswer]

\* A request not yet received
NoPost == [pc |-> "idle", input |-> NoRecord, history |-> <<>>]

HistoryInit ==
    /\ dataFile = NoStore
    /\ localStorage = [currency_history |-> NoStore,
                       currencyHistory |-> NoStore]
    /\ clock = 0
    /\ reply = NoReply
    /\ posts = [p \in Requests |-> NoPost]

-----------------------------------------------------------------------------
(* The requests of the model *)

Hundred == 100 * 1000

\* Valid requests for pairs of the static table, as typed and in lower case
StaticQueries ==
    {Query("USD", "EUR", TRUE, Hundred), Query("usd", "eur", TRUE, Hundred)}

\* A target only the provider knows, and a code nobody knows
OtherQueries ==
    {Query("USD", "TRY", TRUE, Hundred), Query("XYZ", "USD", TRUE, Hundred)}

\* from = to: in the static table (also with a three-decimal amount), known
\* to the provider alone, known to nobody
SameQueries ==
    {Query("USD", "USD", TRUE, Hundred), Query("USD", "USD", TRUE, 1004),
     Query("TRY", "TRY", TRUE, Hundred), Query("XYZ", "XYZ", TRUE, Hundred)}

\* Amount zero, negative, missing; from or to missing
InvalidQueries ==
    {Query("USD", "EUR", TRUE, 0), Query("USD", "EUR", TRUE, 0 - 5000),
     Query("USD", "EUR", FALSE, 0), Query("usd", "eur", TRUE, 0),
     Query("", "EUR", TRUE, Hundred), Query("USD", "", TRUE, Hundred)}

ConvertQueries ==
    StaticQueries \cup OtherQueries \cup SameQueries \cup InvalidQueries

ConvertUpstream == {"ok", "network", "badjson", "error"}

\* Time series: a pair of the static table, a code nobody knows, a
\* missing from
TimeseriesQueries ==
    {Query("USD", "EUR", TRUE, 7), Query("XYZ", "USD", TRUE, 7),
     Query("", "EUR", TRUE, 7)}

-----------------------------------------------------------------------------
(* State machine *)

NoLast ==
    [side |-> "none", op |-> "none", q |-> NoQuery, up |-> "none",
     backend |-> "none", trace |-> <<>>, shitAge |-> NoAge,
     chitAge |-> NoAge, resp |-> NoResp]

\* History of calls, kept only by the specification that compares two
\* calls: the request before the most recent one.
NoHist == [seq |-> 0, at |-> 0, prev |-> NoLast, prevAt |-> 0]

\* The requests that can be under way at once
Callers == {1, 2}

\* A request not yet made.  net is the way to the endpoint and provider
\* the provider's conduct, as the request will find them; wrote numbers
\* the writes of the cache file.
NoCall ==
    [pc |-> "idle", op |-> "none", net |-> "none", provider |-> "none",
     resp |-> NoResp, wrote |-> 0]

\* What the chart is asked to show: from, to and the days of the period
Selection(from, to, days) == [from |-> from, to |-> to, days |-> days]

\* The page as loaded.  The chart: the selection of ChartManager
\* (currentFrom, currentTo, the period), the calls of loadChartData that
\* have not returned, what the canvas shows.  The form: isLoading, the
\* calls of convert that have not returned, what the result container
\* shows and lastConversion; submits, started, ended and ignored count
\* events.
NoUi ==
    [selected |-> Selection("USD", "EUR", 30), pending |-> {},
     shown |-> [sel |-> Selection("", "", 0), ok |-> FALSE], loads |-> 0,
     isLoading |-> FALSE, conversions |-> {}, display |-> "hidden",
     lastConversion |-> NoQuery, submits |-> 0, started |-> 0, ended |-> 0,
     ignored |-> 0]

\* No cache file, an empty Map, no request yet
RateInit ==
    /\ calls = [c \in Callers |-> NoCall]
    /\ ui = NoUi
    /\ now = 0
    /\ convCache = NoFile
    /\ symCache = NoFile
    /\ tsCache = NoFile
    /\ clientCache = NoFile
    /\ last = NoLast
    /\ hist = NoHist

Init ==
    /\ family \in Families
    /\ RateInit
    /\ HistoryInit

\* Time passes.
Tick ==
    /\ \E t \in Times : t > now /\ now' = t
    /\ UNCHANGED <<family, convCache, symCache, tsCache, clientCache, last,
                   hist>>
    /\ UNCHANGED <<calls, ui, historyVars>>

\* The history after one more request (track: the specification keeps it)
Record(track) ==
    hist' = IF track
            THEN [seq |-> 1 - hist.seq, at |-> now, prev |-> last,
                  prevAt |-> hist.at]
            ELSE hist

\* The provider's outcomes that matter to a client call: none when the
\* endpoint is not reached
Reached(backend, outcomes) == IF backend = "down" THEN {"none"} ELSE outcomes

\* The PHP versions a request can tell apart
Php(q) == IF q.hasArg THEN {TRUE} ELSE BOOLEAN

\* A request to convert.php (Q: the queries; U: what the provider does)
ServerConvertRequest(Q, U, track) ==
    /\ family = "convert"
    /\ \E q \in Q, up \in U :
        \E php8 \in Php(q) :
            LET r == ServerConvert(convCache, now, q, up, php8)
            IN  /\ convCache' = r.cache
                /\ last' = [side |-> "server", op |-> "convert", q |-> q,
                            up |-> UpClass(up), backend |-> "none",
                            trace |-> r.trace, shitAge |-> r.hitAge,
                            chitAge |-> NoAge, resp |-> r.resp]
    /\ Record(track)
    /\ UNCHANGED <<family, now, symCache, tsCache, clientCache>>
    /\ UNCHANGED <<calls, ui, historyVars>>

\* A call of CurrencyAPI.convert (B: the states of the endpoint)
ClientConvertRequest(Q, U, B, track) ==
    /\ family = "convert"
    /\ \E q \in Q, backend \in B :
        \E up \in Reached(backend, U) :
            LET r == ClientConvert(convCache, now, q, backend, up)
            IN  /\ convCache' = r.cache
                /\ last' = [side |-> "client", op |-> "convert", q |-> q,
                            up |-> UpClass(up), backend |-> backend,
                            trace |-> r.trace, shitAge |-> r.hitAge,
                            chitAge |-> NoAge, resp |-> r.resp]
    /\ Record(track)
    /\ UNCHANGED <<family, now, symCache, tsCache, clientCache>>
    /\ UNCHANGED <<calls, ui, historyVars>>

\* A request to symbols.php
ServerSymbolsRequest(track) ==
    /\ family = "symbols"
    /\ \E up \in UpstreamOutcomes :
        LET r == ServerSymbols(symCache, now, up)
        IN  /\ symCache' = r.cache
            /\ last' = [side |-> "server", op |-> "symbols", q |-> NoQuery,
                        up |-> UpClass(up), backend |-> "none",
                        trace |-> r.trace, shitAge |-> r.hitAge,
                        chitAge |-> NoAge, resp |-> r.resp]
    /\ Record(track)
    /\ UNCHANGED <<family, now, convCache, tsCache, clientCache>>
    /\ UNCHANGED <<calls, ui, historyVars>>

\* A call of CurrencyAPI.getSymbols
ClientSymbolsRequest(track) ==
    /\ family = "symbols"
    /\ \E backend \in Backends :
        \E up \in Reached(backend, UpstreamOutcomes) :
            LET r == ClientGetSymbols(clientCache, symCache, now, backend, up)
            IN  /\ symCache' = r.scache
                /\ clientCache' = r.ccache
                /\ last' = [side |-> "client", op |-> "symbols",
                            q |-> NoQuery, up |-> UpClass(up),
                            backend |-> backend, trace |-> r.trace,
                            shitAge |-> r.shitAge, chitAge |-> r.chitAge,
                            resp |-> r.resp]
    /\ Record(track)
    /\ UNCHANGED <<family, now, convCache, tsCache>>
    /\ UNCHANGED <<calls, ui, historyVars>>

\* A request to timeseries.php (U: what the provider may answer)
ServerTimeseriesRequest(Q, U, track) ==
    /\ family = "timeseries"
    /\ \E q \in Q, up \in U :
        LET r == ServerTimeseries(tsCache, now, q, up)
        IN  /\ tsCache' = r.cache
            /\ last' = [side |-> "server", op |-> "timeseries", q |-> q,
                        up |-> UpClass(up), backend |-> "none",
                        trace |-> r.trace, shitAge |-> r.hitAge,
                        chitAge |-> NoAge, resp |-> r.resp]
    /\ Record(track)
    /\ UNCHANGED <<family, now, convCache, symCache, clientCache>>
    /\ UNCHANGED <<calls, ui, historyVars>>

\* A call of CurrencyAPI.getTimeSeries (U: what the provider may answer;
\* K: whether two days of the range may share their UTC date)
ClientTimeseriesRequest(Q, U, K, track) ==
    /\ family = "timeseries"
    /\ \E q \in Q, backend \in Backends, sameKey \in K :
        \E up \in Reached(backend, U) :
            LET r == ClientGetTimeSeries(clientCache, tsCache, now, q,
                                         backend, up, sameKey)
            IN  /\ tsCache' = r.scache
                /\ clientCache' = r.ccache
                /\ last' = [side |-> "client", op |-> "timeseries",
                            q |-> q, up |-> UpClass(up),
                            backend |-> backend, trace |-> r.trace,
                            shitAge |-> r.shitAge, chitAge |-> r.chitAge,
                            resp |-> r.resp]
    /\ Record(track)
    /\ UNCHANGED <<family, now, convCache, symCache>>
    /\ UNCHANGED <<calls, ui, historyVars>>

Next ==
    \/ Tick
    \/ ServerConvertRequest(ConvertQueries, ConvertUpstream, FALSE)
    \/ ClientConvertRequest(ConvertQueries, ConvertUpstream, Backends, FALSE)
    \/ ServerSymbolsRequest(FALSE)
    \/ ClientSymbolsRequest(FALSE)
    \/ ServerTimeseriesRequest(TimeseriesQueries, UpstreamOutcomes, FALSE)
    \/ ClientTimeseriesRequest(TimeseriesQueries, UpstreamOutcomes, {FALSE},
                               FALSE)

Spec == Init /\ [][Next]_vars

-----------------------------------------------------------------------------
(* Properties of convert *)

\* A convert request with from, to and a positive amount
ValidConvert(q) == q.from # "" /\ q.to # "" /\ q.hasArg /\ q.arg > 0

StaticCodes == DOMAIN rates

\* 1, in the unit of rates
One == 10 * 1000 * 1000

\* An amount in thousandths rounded to two decimals
Cents(amount) == 10 * ((amount + 5) \div 10)

\* C1: a convert request whose amount is missing, zero or negative, or
\* whose from or to is missing, never returns a success result (it is to
\* fail with InvalidParameters), on the endpoint and in CurrencyAPI.convert,
\* whatever the cache and the provider do.
C1_InvalidConvertNeverSucceeds ==
    (last.op = "convert" /\ ~ValidConvert(last.q)) => ~last.resp.success

\* C2: convert(a, a, amount) with amount > 0 succeeds with rate = 1 and
\* result = amount, for every code a: a request is never rejected because
\* from equals to.
C2_SameCurrencyIsIdentity ==
    (last.op = "convert" /\ ValidConvert(last.q)
        /\ Upper(last.q.from) = Upper(last.q.to))
    => (/\ last.resp.success
        /\ last.resp.rate = One
        /\ last.resp.result = last.q.arg)

\* The provider did not answer this request's needs: it failed, or the
\* endpoint itself could not be reached.
UpstreamDown == last.up = "failed" \/ last.backend = "down"

\* C3 as claimed: with the provider failing, a valid convert for a pair of
\* the static table returns success with fallback = true in every state of
\* the cache.
C3_FallbackWhateverTheCache ==
    (last.op = "convert" /\ ValidConvert(last.q) /\ UpstreamDown
        /\ Upper(last.q.from) \in StaticCodes
        /\ Upper(last.q.to) \in StaticCodes)
    => (last.resp.success /\ last.resp.fallback)

\* C3 amended: with the provider failing, a valid convert for a pair of
\* the static table returns success; the result carries fallback = true
\* unless a fresh cache entry answers, which is returned with
\* cached = true and without the fallback mark.
C3_FallbackUnlessCached ==
    (last.op = "convert" /\ ValidConvert(last.q) /\ UpstreamDown
        /\ Upper(last.q.from) \in StaticCodes
        /\ Upper(last.q.to) \in StaticCodes)
    => /\ last.resp.success
       /\ IF Has(last.trace, "s.cache.hit")
          THEN last.resp.cached = "true" /\ ~last.resp.fallback
          ELSE last.resp.fallback

\* C3 witness: the endpoint missed its cache, the provider failed, and
\* USD to EUR was answered from the static table.
C3_Witness ==
    /\ last.op = "convert" /\ last.side = "server"
    /\ last.q = Query("USD", "EUR", TRUE, Hundred)
    /\ last.trace = <<"s.cache.miss", "live.fail", "s.fallback.ok">>
    /\ last.resp.success /\ last.resp.fallback

-----------------------------------------------------------------------------
(* Properties of getSymbols *)

\* The response was built by a catch block, not from the provider's data
FromFallback ==
    Has(last.trace, "s.fallback.ok") \/ Has(last.trace, "c.fallback.ok")

\* C5: getSymbols never fails: whatever the caches hold and whatever the
\* provider's call ends in, it returns a success response with a
\* non-empty symbol table, marked fallback = true when it did not come
\* from the provider.
C5_SymbolsAlwaysSomeTable ==
    last.op = "symbols"
    => /\ last.resp.success
       /\ last.resp.symbols # {}
       /\ FromFallback => last.resp.fallback

-----------------------------------------------------------------------------
(* Properties of the caches *)

\* The TTL of the endpoint's cache, by operation
ServerTTL(op) ==
    CASE op = "convert" -> ConvertCacheTime
      [] op = "symbols" -> SymbolsCacheTime
      [] OTHER -> TimeseriesCacheTime

\* C7: no response is taken from a cache entry whose age is at or beyond
\* its TTL ($cacheTime on the server, cacheTimeout in the client); and when the
\* provider fails the request ends in the catch block (static data or an
\* error), never in a cache entry.
C7_NoStaleEntryServed ==
    /\ Has(last.trace, "s.cache.hit")
        => (last.shitAge >= 0 /\ last.shitAge < ServerTTL(last.op))
    /\ Has(last.trace, "c.cache.hit")
        => (last.chitAge >= 0 /\ last.chitAge * 1000 < cacheTimeout)
    /\ Has(last.trace, "live.fail")
        => /\ ~Has(last.trace, "s.cache.hit")
           /\ \/ Has(last.trace, "s.fallback.ok")
              \/ Has(last.trace, "s.fallback.unsupported")
              \/ Has(last.trace, "s.error")

\* C7 witness: the convert endpoint found its entry exactly $cacheTime old, did
\* not serve it, and with the provider failing answered from the table.
C7_Witness ==
    /\ last.op = "convert" /\ last.side = "server"
    /\ last.trace = <<"s.cache.miss", "live.fail", "s.fallback.ok">>
    /\ ConvertCacheKey(last.q.from, last.q.to, last.q.arg) \in DOMAIN convCache
    /\ now - convCache[ConvertCacheKey(last.q.from, last.q.to,
                                       last.q.arg)].mtime = ConvertCacheTime

\* C8: a response served from a cache entry is marked cached = true, and a
\* response built from a fresh call is marked cached = false, in the
\* endpoints' file caches and in the client's Map.
C8_CacheHitsAreMarked ==
    /\ (Has(last.trace, "s.cache.hit") \/ Has(last.trace, "c.cache.hit"))
        => last.resp.cached = "true"
    /\ (last.side = "server" /\ Has(last.trace, "live.ok"))
        => last.resp.cached = "false"

-----------------------------------------------------------------------------
(* Properties of the order of the tiers *)

\* The static table was consulted (the endpoint's or the client's)
StaticConsulted ==
    \/ Has(last.trace, "s.fallback.ok")
    \/ Has(last.trace, "s.fallback.unsupported")
    \/ Has(last.trace, "s.fallback.crash")
    \/ Has(last.trace, "c.fallback.ok")
    \/ Has(last.trace, "c.fallback.unsupported")

\* The provider was called
LiveAttempt(trace) == Has(trace, "live.ok") \/ Has(trace, "live.fail")

\* C10: within one request the tiers are tried in the order cache, live,
\* static: the provider is called only after a cache miss, and the static
\* table is consulted only after a live attempt of the same request failed
\* (for the client, after its call of the endpoint failed).
C10_CacheThenLiveThenStatic ==
    /\ \A i \in 1..Len(last.trace) :
        last.trace[i] \in {"live.ok", "live.fail"}
        => (i > 1 /\ last.trace[i - 1] = "s.cache.miss")
    /\ StaticConsulted
        => (Has(last.trace, "live.fail") \/ Has(last.trace, "backend.fail"))

-----------------------------------------------------------------------------
(* Properties of what is written to the caches *)

ServerCachesChange ==
    convCache' # convCache \/ symCache' # symCache \/ tsCache' # tsCache

\* C9 as claimed: a cache entry is created or overwritten only by a
\* successful call of the inner source (the provider for the endpoints,
\* the endpoint for the client); a failed call leaves the cache as it was.
C9_OnlySuccessfulCallsWrite ==
    [][/\ ServerCachesChange => Has(last'.trace, "live.ok")
       /\ clientCache' # clientCache => Has(last'.trace, "backend.ok")]_vars

\* The key of the client's Map a request uses
ClientKey(l) ==
    IF l.op = "symbols" THEN SymbolsKey ELSE ClientTimeseriesKey(l.q)

\* C9 amended: on the server a cache file is created or overwritten only
\* by a successful call of the provider, and a failed call leaves the
\* files as they were; in the client the Map is written after a successful
\* call of the endpoint and also by the catch block of getSymbols and
\* getTimeSeries, which stores the static result it returns.
C9_ServerOnlySuccessClientAlsoFallback ==
    [][/\ ServerCachesChange => Has(last'.trace, "live.ok")
       /\ clientCache' # clientCache
            => (Has(last'.trace, "backend.ok")
                \/ Has(last'.trace, "c.fallback.ok"))
       /\ (last' # last /\ last'.op \in {"symbols", "timeseries"}
            /\ Has(last'.trace, "c.fallback.ok"))
            => /\ ClientKey(last') \in DOMAIN clientCache'
               /\ clientCache'[ClientKey(last')] =
                    [mtime |-> now, data |-> last'.resp]]_vars

\* C9 witness: getTimeSeries found the endpoint down and the Map now
\* holds the static series it returned.
C9_Witness ==
    /\ last.op = "timeseries" /\ last.side = "client"
    /\ Has(last.trace, "c.fallback.ok")
    /\ ClientKey(last) \in DOMAIN clientCache
    /\ clientCache[ClientKey(last)].data.fallback
    /\ clientCache[ClientKey(last)].data.series = "static"

-----------------------------------------------------------------------------
(* Two calls with the same parameters *)

\* Requests that reach the cache check
CallConvertQueries == {Query("USD", "EUR", TRUE, Hundred)}

CallTimeseriesQueries == {Query("USD", "EUR", TRUE, 7)}

NextCalls ==
    \/ Tick
    \/ ServerConvertRequest(CallConvertQueries, ConvertUpstream, TRUE)
    \/ ClientConvertRequest(CallConvertQueries, ConvertUpstream, Backends,
                            TRUE)
    \/ ServerSymbolsRequest(TRUE)
    \/ ClientSymbolsRequest(TRUE)
    \/ ServerTimeseriesRequest(CallTimeseriesQueries, UpstreamOutcomes, TRUE)
    \/ ClientTimeseriesRequest(CallTimeseriesQueries, UpstreamOutcomes,
                               {FALSE}, TRUE)

\* The same system, keeping the history of the last two calls
SpecCalls == Init /\ [][NextCalls]_vars

\* The request called its inner source: the provider for an endpoint, the
\* endpoint for the client
InnerCalled(l) ==
    IF l.side = "server" THEN LiveAttempt(l.trace)
    ELSE Has(l.trace, "backend.ok") \/ Has(l.trace, "backend.fail")

\* The request left an entry for its parameters in its own cache
Stored(l) ==
    IF l.side = "server" THEN Has(l.trace, "live.ok")
    ELSE /\ l.op # "convert"
         /\ Has(l.trace, "backend.ok") \/ Has(l.trace, "c.fallback.ok")

\* The TTL of the cache a request looks in, seconds
TTL(l) == IF l.side = "server" THEN ServerTTL(l.op) ELSE cacheTimeout \div 1000

\* The last two calls are the same operation on the same side with
\* identical parameters
SameCall ==
    /\ hist.prev.side # "none"
    /\ hist.prev.side = last.side
    /\ hist.prev.op = last.op
    /\ hist.prev.q = last.q

WithinTTL == hist.at - hist.prevAt < TTL(last)

\* C6 as claimed: two calls with identical parameters made within the TTL
\* call the inner source at most once in total, and a call made once the
\* TTL has elapsed calls it again.
C6_OneInnerCallPerTTL ==
    SameCall
    => /\ WithinTTL => ~(InnerCalled(hist.prev) /\ InnerCalled(last))
       /\ ~WithinTTL => InnerCalled(last)

\* C6 amended: after a call that left an entry in its cache (an endpoint
\* whose call of the provider succeeded; getSymbols or getTimeSeries of
\* the client, whose result is stored also when it is the static one), a
\* call with identical parameters within the TTL does not call the inner
\* source; once the TTL has elapsed a call calls it again; and after a
\* call whose inner call left no entry (the provider failed on an
\* endpoint; CurrencyAPI.convert, which keeps no cache) the next call
\* calls the inner source again, also within the TTL.
C6_OneInnerCallAfterStoredEntry ==
    SameCall
    => /\ (WithinTTL /\ Stored(hist.prev)) => ~InnerCalled(last)
       /\ ~WithinTTL => InnerCalled(last)
       /\ (InnerCalled(hist.prev) /\ ~Stored(hist.prev)) => InnerCalled(last)

\* C6 witness: the convert endpoint called the provider, and the same
\* request 150 s later was served from the cache without a call.
C6_Witness ==
    /\ SameCall /\ last.side = "server" /\ last.op = "convert"
    /\ hist.at - hist.prevAt = 150
    /\ Has(hist.prev.trace, "live.ok")
    /\ last.trace = <<"s.cache.hit">>

-----------------------------------------------------------------------------
(* Properties of getTimeSeries *)

\* A time series request with from and to
ValidSeries(q) == q.from # "" /\ q.to # ""

\* The response carries a series
HasSeries(resp) == resp.series # "none"

\* C11: with the provider failing, getTimeSeries for a pair of the static
\* table still returns a series marked fallback = true; the provider's
\* failure is never returned to the caller as an error, and a request
\* with from and to fails only as unsupported.
C11_SeriesFallsBackToStatic ==
    (last.op = "timeseries" /\ ValidSeries(last.q))
    => /\ (UpstreamDown /\ Upper(last.q.from) \in StaticCodes
            /\ Upper(last.q.to) \in StaticCodes)
          => (HasSeries(last.resp) /\ last.resp.fallback)
       /\ ~HasSeries(last.resp) => last.resp.error = "unsupported"

\* Requests for a week, for more than a year, and for a code nobody knows
SeriesQueries ==
    {Query("USD", "EUR", TRUE, 7), Query("USD", "EUR", TRUE, 366),
     Query("XYZ", "USD", TRUE, 7)}

NextSeries ==
    \/ ServerTimeseriesRequest(SeriesQueries, TimeseriesUpstream, FALSE)
    \/ ClientTimeseriesRequest(SeriesQueries, TimeseriesUpstream, BOOLEAN,
                               FALSE)

\* Time series requests at one instant, with every answer of the provider
\* and every reading of the dates
SpecSeries == Init /\ [][NextSeries]_vars

\* C12: days is clamped to [1, 365] before any use: whatever days the
\* caller gives, the series returned reaches back at least 1 and at most
\* 365 days.
C12_DaysClamped ==
    (last.op = "timeseries" /\ HasSeries(last.resp))
    => (last.resp.span >= 1 /\ last.resp.span <= 365)

\* C13: for days d in [1, 365] a returned series has exactly d + 1
\* entries, one for each day from today - d to today.
C13_OneEntryPerDay ==
    (last.op = "timeseries" /\ HasSeries(last.resp)
        /\ last.q.arg >= 1 /\ last.q.arg <= 365)
    => last.resp.count = last.q.arg + 1

-----------------------------------------------------------------------------
(* The history operations *)

\* The record saveToHistory builds from a conversion of 100 USD, made at
\* date
GoodRecord(date) ==
    HistoryRecord(requiredFields, "USD", "EUR", Hundred, 85000, 8500000,
                  date)

\* The kinds of record handed to the history: a complete one, one without
\* rate, one whose result is 0.00, and an empty body
RecordKinds == {"good", "norate", "zero", "empty"}

HistoryInput(kind, date) ==
    CASE kind = "good" -> GoodRecord(date)
      [] kind = "norate" ->
            [GoodRecord(date) EXCEPT !.fields = requiredFields \ {"rate"}]
      [] kind = "zero" -> [GoodRecord(date) EXCEPT !.result = 0]
      [] OTHER -> NoRecord

HistoryInputs(Kinds, date) == {HistoryInput(kind, date) : kind \in Kinds}

\* POST history.php (Kinds: the records sent; limit: the last date of the
\* run)
PostHistoryRequest(Kinds, limit) ==
    /\ family = "history.php"
    /\ clock < limit
    /\ \E input \in HistoryInputs(Kinds, clock + 1) :
        LET r == handlePostHistory(dataFile, input, clock + 1)
        IN  /\ dataFile' = r.file
            /\ clock' = IF r.resp.success THEN clock + 1 ELSE clock
            /\ reply' = [side |-> "server", op |-> "post", input |-> input,
                         backend |-> "none",
                         trace |-> IF r.resp.success THEN <<"post.ok">>
                                   ELSE <<"post.rejected">>,
                         resp |-> r.resp]
    /\ UNCHANGED <<family, localStorage, posts>>
    /\ UNCHANGED rateVars

\* GET history.php
GetHistoryRequest ==
    /\ family = "history.php"
    /\ reply' = [side |-> "server", op |-> "get", input |-> NoRecord,
                 backend |-> "none", trace |-> <<"get.ok">>,
                 resp |-> handleGetHistory(dataFile)]
    /\ UNCHANGED <<family, dataFile, localStorage, clock, posts>>
    /\ UNCHANGED rateVars

\* DELETE history.php
DeleteHistoryRequest ==
    /\ family = "history.php"
    /\ dataFile' = handleDeleteHistory(dataFile).file
    /\ reply' = [side |-> "server", op |-> "clear", input |-> NoRecord,
                 backend |-> "none", trace |-> <<"delete.ok">>,
                 resp |-> handleDeleteHistory(dataFile).resp]
    /\ UNCHANGED <<family, localStorage, clock, posts>>
    /\ UNCHANGED rateVars

\* A call of CurrencyAPI.saveHistory (B: the states of the endpoint)
SaveHistoryCall(Kinds, B, limit) ==
    /\ family = "part_001"
    /\ clock < limit
    /\ \E input \in HistoryInputs(Kinds, clock + 1), backend \in B :
        LET r == saveHistory(dataFile, localStorage.currency_history, input,
                             backend, clock + 1)
        IN  /\ dataFile' = r.file
            /\ localStorage' =
                [localStorage EXCEPT !.currency_history = r.item]
            /\ clock' = clock + 1
            /\ reply' = [side |-> "part_001", op |-> "post",
                         input |-> input, backend |-> backend,
                         trace |-> r.trace, resp |-> r.resp]
    /\ UNCHANGED <<family, posts>>
    /\ UNCHANGED rateVars

\* A call of CurrencyAPI.getHistory
GetHistoryCall(B) ==
    /\ family = "part_001"
    /\ \E backend \in B :
        LET r == getHistory(dataFile, localStorage.currency_history, backend)
        IN  reply' = [side |-> "part_001", op |-> "get", input |-> NoRecord,
                      backend |-> backend, trace |-> r.trace,
                      resp |-> r.resp]
    /\ UNCHANGED <<family, dataFile, localStorage, clock, posts>>
    /\ UNCHANGED rateVars

\* A call of CurrencyAPI.clearHistory
ClearHistoryCall(B) ==
    /\ family = "part_001"
    /\ \E backend \in B :
        LET r == clearHistory(dataFile, localStorage.currency_history,
                              backend)
        IN  /\ dataFile' = r.file
            /\ localStorage' =
                [localStorage EXCEPT !.currency_history = r.item]
            /\ reply' = [side |-> "part_001", op |-> "clear",
                         input |-> NoRecord, backend |-> backend,
                         trace |-> r.trace, resp |-> r.resp]
    /\ UNCHANGED <<family, clock, posts>>
    /\ UNCHANGED rateVars

\* React variant: a call of saveHistory
ReactSaveCall(Kinds, B, limit) ==
    /\ family = "part_000"
    /\ clock < limit
    /\ \E input \in HistoryInputs(Kinds, clock + 1), backend \in B :
        LET r == ReactSaveHistory(dataFile, localStorage.currencyHistory,
                                  input, backend, clock + 1)
        IN  /\ dataFile' = r.file
            /\ localStorage' =
                [localStorage EXCEPT !.currencyHistory = r.item]
            /\ clock' = clock + 1
            /\ reply' = [side |-> "part_000", op |-> "post",
                         input |-> input, backend |-> backend,
                         trace |-> r.trace, resp |-> r.resp]
    /\ UNCHANGED <<family, posts>>
    /\ UNCHANGED rateVars

\* React variant: a call of getHistory
ReactGetCall(B) ==
    /\ family = "part_000"
    /\ \E backend \in B :
        LET r == ReactGetHistory(dataFile, localStorage.currencyHistory,
                                 backend)
        IN  reply' = [side |-> "part_000", op |-> "get", input |-> NoRecord,
                      backend |-> backend, trace |-> r.trace,
                      resp |-> r.resp]
    /\ UNCHANGED <<family, dataFile, localStorage, clock, posts>>
    /\ UNCHANGED rateVars

\* React variant: the History component's clearHistory
ReactClearCall ==
    /\ family = "part_000"
    /\ LET r == ReactClearHistory(dataFile, localStorage.currencyHistory)
       IN  /\ localStorage' =
                [localStorage EXCEPT !.currencyHistory = r.item]
           /\ reply' = [side |-> "part_000", op |-> "clear",
                        input |-> NoRecord, backend |-> "none",
                        trace |-> r.trace, resp |-> r.resp]
    /\ UNCHANGED <<family, dataFile, clock, posts>>
    /\ UNCHANGED rateVars

\* history.php receives a POST: the body is parsed and validated and the
\* stored history is read
ReceivePost(p, Kinds) ==
    /\ family = "concurrent"
    /\ posts[p].pc = "idle"
    /\ \E input \in HistoryInputs(Kinds, p) :
        IF PostValidate(input) # ""
        THEN /\ posts' = [posts EXCEPT ![p] =
                            [pc |-> "rejected", input |-> input,
                             history |-> <<>>]]
             /\ reply' = [side |-> "server", op |-> "post",
                          input |-> input, backend |-> "none",
                          trace |-> <<"post.rejected">>,
                          resp |-> HistoryCatch(PostValidate(input))]
        ELSE /\ posts' = [posts EXCEPT ![p] =
                            [pc |-> "loaded", input |-> input,
                             history |-> LoadHistory(dataFile)]]
             /\ reply' = reply
    /\ UNCHANGED <<family, dataFile, localStorage, clock>>
    /\ UNCHANGED rateVars

\* The request goes on: the new record is put before the history it read,
\* the file is written and success is answered
StorePost(p) ==
    /\ family = "concurrent"
    /\ posts[p].pc = "loaded"
    /\ dataFile' = PostStore(posts[p].history,
                             NewRecord(posts[p].input, clock + 1))
    /\ clock' = clock + 1
    /\ posts' = [posts EXCEPT ![p].pc = "stored"]
    /\ reply' = [side |-> "server", op |-> "post", input |-> posts[p].input,
                 backend |-> "none", trace |-> <<"post.ok">>,
                 resp |-> [NoAnswer EXCEPT !.http = 200, !.success = TRUE,
                              !.count = Len(dataFile'.records)]]
    /\ UNCHANGED <<family, localStorage>>
    /\ UNCHANGED rateVars

-----------------------------------------------------------------------------
(* The specifications of the history *)

\* The last date of a run that fills a store beyond its cap
MaxDate == 52

\* The last date of a run that mixes the endpoint and localStorage
MaxSaves == 3

LogFamilies == {"history.php", "part_001", "part_000"}

InitLog ==
    /\ family \in LogFamilies
    /\ RateInit
    /\ HistoryInit

\* One store at a time, filled beyond its cap: the endpoint alone, and
\* the two clients with the endpoint out of reach
NextLog ==
    \/ PostHistoryRequest(RecordKinds, MaxDate)
    \/ GetHistoryRequest
    \/ DeleteHistoryRequest
    \/ SaveHistoryCall({"good"}, {"down"}, MaxDate)
    \/ GetHistoryCall({"down"})
    \/ ClearHistoryCall({"down"})
    \/ ReactSaveCall({"good"}, {"down"}, MaxDate)
    \/ ReactGetCall({"down"})
    \/ ReactClearCall

SpecLog == InitLog /\ [][NextLog]_vars

\* A few records of every kind, with the endpoint reached or not
NextHistory ==
    \/ PostHistoryRequest(RecordKinds, MaxSaves)
    \/ GetHistoryRequest
    \/ DeleteHistoryRequest
    \/ SaveHistoryCall(RecordKinds, Backends, MaxSaves)
    \/ GetHistoryCall(Backends)
    \/ ClearHistoryCall(Backends)
    \/ ReactSaveCall(RecordKinds, Backends, MaxSaves)
    \/ ReactGetCall(Backends)
    \/ ReactClearCall

SpecHistory == InitLog /\ [][NextHistory]_vars

InitPosts ==
    /\ family = "concurrent"
    /\ RateInit
    /\ HistoryInit

\* POST requests handled at the same time
NextPosts ==
    \E p \in Requests :
        \/ ReceivePost(p, {"good", "norate"})
        \/ StorePost(p)

SpecPosts == InitPosts /\ [][NextPosts]_vars

-----------------------------------------------------------------------------
(* C14, C17: the bound and the listing of the history *)

\* new is old with one record of the given date put first and the
\* records beyond cap dropped from the end
AppendedTo(old, new, date, cap) ==
    /\ Len(new) = IF Len(old) < cap THEN Len(old) + 1 ELSE cap
    /\ new[1].date = date
    /\ \A i \in 2..Len(new) : new[i] = old[i - 1]

\* C14: a history store never holds more than its cap (history.json 50,
\* currency_history 50, currencyHistory 10), and every append puts the new
\* record first, keeps the records before it in their order and drops the
\* oldest beyond the cap; so after more than cap appends the store holds
\* the cap most recent records, newest first.
C14_StoreCappedNewestFirst ==
    [][/\ Len(dataFile'.records) <= 50
       /\ Len(localStorage'.currency_history.records) <= 50
       /\ Len(localStorage'.currencyHistory.records) <= 10
       /\ (reply'.op = "post" /\ reply'.resp.success)
            => \/ dataFile' # dataFile
               \/ localStorage' # localStorage
       /\ (reply'.op = "post" /\ dataFile' # dataFile)
            => AppendedTo(dataFile.records, dataFile'.records, clock', 50)
       /\ (reply'.op = "post" /\ localStorage'.currency_history
                                    # localStorage.currency_history)
            => AppendedTo(localStorage.currency_history.records,
                          localStorage'.currency_history.records, clock', 50)
       /\ (reply'.op = "post" /\ localStorage'.currencyHistory
                                    # localStorage.currencyHistory)
            => AppendedTo(localStorage.currencyHistory.records,
                          localStorage'.currencyHistory.records, clock', 10)
      ]_vars

\* C14 witness: 52 records were posted to history.php one after the other;
\* the file holds the 50 of the dates 52 down to 3.
C14_Witness ==
    /\ family = "history.php"
    /\ reply.op = "post" /\ reply.resp.success
    /\ clock = 52
    /\ Len(dataFile.records) = 50
    /\ \A i \in 1..50 : dataFile.records[i].date = 53 - i

\* The store a listing reads: history.json when the endpoint answers, else
\* the item of localStorage of the client
ListedStore ==
    IF reply.side = "server" \/ reply.backend = "up" THEN dataFile
    ELSE IF reply.side = "part_001" THEN localStorage.currency_history
    ELSE localStorage.currencyHistory

\* C17 as stated: a listing without limit returns every stored record.
C17_ListReturnsAll ==
    reply.op = "get"
    => /\ reply.resp.success
       /\ reply.resp.history = ListedStore.records

\* C17: a listing never fails and is newest first; the endpoint returns
\* the 10 newest records of history.json (all of them when there are at
\* most 10), the listing from localStorage returns every record of the
\* item.
C17_ListNewestFirst ==
    reply.op = "get"
    => /\ reply.resp.success
       /\ reply.resp.error = ""
       /\ \A i \in 1..Len(reply.resp.history) :
            reply.resp.history[i] = ListedStore.records[i]
       /\ \A i \in 2..Len(reply.resp.history) :
            reply.resp.history[i].date < reply.resp.history[i - 1].date
       /\ Len(reply.resp.history) =
            IF (reply.side = "server" \/ reply.backend = "up")
                /\ Len(ListedStore.records) > 10
            THEN 10 ELSE Len(ListedStore.records)

\* C17 witness: history.json holds more than 10 records and the endpoint
\* listed the 10 newest.
C17_Witness ==
    /\ reply.op = "get" /\ reply.side = "server"
    /\ Len(dataFile.records) > 10
    /\ Len(reply.resp.history) = 10
    /\ reply.resp.history[1].date = clock

-----------------------------------------------------------------------------
(* C16, C18, C20: what the history accepts, clears and stores *)

\* C16: an append of a record that lacks one of from, to, amount, result,
\* rate is rejected: it does not report success and it leaves history.json
\* and both items of localStorage as they were.
C16_InvalidRecordRejected ==
    [][(reply'.op = "post" /\ ~(requiredFields \subseteq reply'.input.fields))
        => /\ ~reply'.resp.success
           /\ dataFile' = dataFile
           /\ localStorage' = localStorage
      ]_vars

\* C18: a clear that succeeds leaves no record in any store of the
\* history (no history.json, no item in localStorage), and clearing again
\* leaves the same state.
C18_ClearRemovesAll ==
    [][(reply'.op = "clear" /\ reply'.resp.success)
        => /\ dataFile' = NoStore
           /\ localStorage'.currency_history = NoStore
           /\ localStorage'.currencyHistory = NoStore
           /\ handleDeleteHistory(dataFile').file = dataFile'
           /\ clearHistoryFromStorage(localStorage'.currency_history)
                = localStorage'.currency_history
      ]_vars

\* The stores of the history
HistoryStores ==
    {dataFile, localStorage.currency_history, localStorage.currencyHistory}

\* C20: every stored record has an id and a timestamp, and no two records
\* of a store have the same id.
C20_StoredRecordsHaveUniqueId ==
    \A store \in HistoryStores :
        /\ \A i \in 1..Len(store.records) :
            /\ store.records[i].id # 0
            /\ store.records[i].timestamp # 0
        /\ \A i, j \in 1..Len(store.records) :
            i # j => store.records[i].id # store.records[j].id

-----------------------------------------------------------------------------
(* C15: appends at the same time *)

\* C15: once every POST request was answered, history.json holds the
\* record of every request that was answered with success.
C15_NoLostAppend ==
    (\A p \in Requests : posts[p].pc \in {"stored", "rejected"})
    => \A p \in Requests :
        posts[p].pc = "stored"
        => \E i \in 1..Len(dataFile.records) :
            dataFile.records[i].date = posts[p].input.date

-----------------------------------------------------------------------------
(* C19: the converter page, which converts and then saves the result *)

\* The validation of handleSubmit
SubmitInvalid(q) ==
    q.from = "" \/ q.to = "" \/ ~q.hasArg \/ q.arg <= 0 \/ q.from = q.to

\* The record saveToHistory builds from the result of convert
saveToHistory(result, date) ==
    HistoryRecord(requiredFields, result.from, result.to, result.amount,
                  result.result, result.rate, date)

\* What is typed into the form: 100 USD to EUR, 1 KRW to USD, USD to USD
ConverterQueries ==
    {Query("USD", "EUR", TRUE, Hundred), Query("KRW", "USD", TRUE, 1000),
     Query("USD", "USD", TRUE, Hundred)}

\* The form is submitted: handleSubmit validates, convert calls
\* currencyAPI.convert and, when it returned, saveToHistory
ConverterSubmit(Q, limit) ==
    /\ family = "converter.js"
    /\ clock < limit
    /\ \E q \in Q, backend \in Backends, saveBackend \in Backends :
        \E up \in Reached(backend, ConvertUpstream) :
            LET r == ClientConvert(convCache, now, q, backend, up)
                record == saveToHistory(r.resp, clock + 1)
                s == saveHistory(dataFile, localStorage.currency_history,
                                 record, saveBackend, clock + 1)
            IN  IF SubmitInvalid(q)
                THEN /\ last' = [NoLast EXCEPT !.side = "converter.js",
                                    !.op = "convert", !.q = q,
                                    !.trace = <<"submit.invalid">>]
                     /\ UNCHANGED <<convCache, dataFile, localStorage, clock,
                                    reply>>
                ELSE IF ~r.resp.success
                THEN /\ last' = [side |-> "converter.js", op |-> "convert",
                                 q |-> q, up |-> UpClass(up),
                                 backend |-> backend, trace |-> r.trace,
                                 shitAge |-> r.hitAge, chitAge |-> NoAge,
                                 resp |-> r.resp]
                     /\ convCache' = r.cache
                     /\ UNCHANGED <<dataFile, localStorage, clock, reply>>
                ELSE /\ last' = [side |-> "converter.js", op |-> "convert",
                                 q |-> q, up |-> UpClass(up),
                                 backend |-> backend, trace |-> r.trace,
                                 shitAge |-> r.hitAge, chitAge |-> NoAge,
                                 resp |-> r.resp]
                     /\ convCache' = r.cache
                     /\ dataFile' = s.file
                     /\ localStorage' =
                         [localStorage EXCEPT !.currency_history = s.item]
                     /\ clock' = clock + 1
                     /\ reply' = [side |-> "converter.js", op |-> "post",
                                  input |-> record, backend |-> saveBackend,
                                  trace |-> s.trace, resp |-> s.resp]
    /\ UNCHANGED <<family, now, symCache, tsCache, clientCache, hist, posts,
                   calls, ui>>

InitConverter ==
    /\ family = "converter.js"
    /\ RateInit
    /\ HistoryInit

NextConverter == ConverterSubmit(ConverterQueries, MaxSaves)

SpecConverter == InitConverter /\ [][NextConverter]_vars

\* C19: the record built from the result of a successful convert passes
\* the validation of the history endpoint, and its append is not rejected.
C19_ResultAcceptedByAppend ==
    (last.side = "converter.js" /\ last.op = "convert" /\ last.resp.success)
    => /\ PostValidate(saveToHistory(last.resp, clock)) = ""
       /\ ~Has(reply.trace, "post.rejected")

-----------------------------------------------------------------------------
(* C21: the arithmetic of the static table *)

\* The provider's outcomes that are failures
FailedUpstream == {"network", "badjson", "error"}

\* Amounts of 0.01, 1.00 and 8.99
TableAmounts == {10, 1000, 8990}

\* The pairs of the static table whose rate, in units of 10^-7, is within
\* the integers of the checker (all but KRW from nine of the codes)
TablePairs ==
    {pair \in StaticCodes \X StaticCodes :
        rates[pair[2]] < 200 * rates[pair[1]]}

\* Each of these pairs with each of the amounts, and 100 RUB to USD
TableQueries ==
    {Query(pair[1], pair[2], TRUE, amount) :
        pair \in TablePairs, amount \in TableAmounts}
    \cup {Query("RUB", "USD", TRUE, Hundred)}

\* The state before a request q is made
Asked(q) == [NoLast EXCEPT !.q = q]

\* No request was made yet
Unasked == last.op = "none"

InitConvert ==
    /\ family = "convert"
    /\ RateInit
    /\ HistoryInit

\* One of the queries is about to be made
InitTable ==
    /\ family = "convert"
    /\ now = 0
    /\ convCache = NoFile
    /\ symCache = NoFile
    /\ tsCache = NoFile
    /\ clientCache = NoFile
    /\ last \in {Asked(q) : q \in TableQueries}
    /\ hist = NoHist
    /\ calls = [c \in Callers |-> NoCall]
    /\ ui = NoUi
    /\ HistoryInit

\* It is made to convert.php or to CurrencyAPI.convert, with the provider
\* failing
NextTable ==
    \/ Unasked /\ ServerConvertRequest({last.q}, FailedUpstream, FALSE)
    \/ Unasked /\ ClientConvertRequest({last.q}, FailedUpstream, Backends,
                                       FALSE)

SpecTable == InitTable /\ [][NextTable]_vars

\* r (in units of 10^-6) is tb / ta rounded to six decimals, halves up;
\* the difference r * ta - 10^6 * tb is taken in two parts of three digits
IsRoundedRate(r, ta, tb) ==
    LET d1 == (r \div 1000) * ta - 1000 * tb
    IN  /\ d1 >= 0 - ta /\ d1 <= ta
        /\ LET diff == 1000 * d1 + (r % 1000) * ta
           IN  2 * diff <= ta /\ 2 * diff > 0 - ta

\* c (in hundredths) is amount * tb / ta rounded to two decimals, halves
\* up; amount in thousandths
IsRoundedResult(c, amount, ta, tb) ==
    LET diff == c * 10 * ta - amount * tb
    IN  diff <= 5 * ta /\ diff > 0 - 5 * ta

\* C21: on the static path a valid convert of a pair (a, b) of the table
\* returns rate = round(table[b] / table[a], 6) and
\* result = round(amount * table[b] / table[a], 2), from the endpoint and
\* from CurrencyAPI.convert.
C21_StaticRateAndResult ==
    (last.op = "convert" /\ last.resp.success /\ last.resp.fallback)
    => /\ last.resp.rate % 10 = 0
       /\ last.resp.result % 10 = 0
       /\ IsRoundedRate(last.resp.rate \div 10, rates[Upper(last.q.from)],
                        rates[Upper(last.q.to)])
       /\ IsRoundedResult(last.resp.result \div 10, last.q.arg,
                          rates[Upper(last.q.from)], rates[Upper(last.q.to)])

\* C21 witness: 100 RUB to USD from the static table of the endpoint:
\* rate 0.013333, result 1.33.
C21_Witness ==
    /\ last.op = "convert" /\ last.side = "server"
    /\ last.q = Query("RUB", "USD", TRUE, Hundred)
    /\ Has(last.trace, "s.fallback.ok")
    /\ last.resp.rate = 133330
    /\ last.resp.result = 1330

-----------------------------------------------------------------------------
(* C22: the decimals of a convert response *)

\* 1.004 EUR to USD and 1.00 USD to EUR
RoundQueries ==
    {Query("EUR", "USD", TRUE, 1004), Query("USD", "EUR", TRUE, 1000)}

NextRound ==
    \/ Tick
    \/ ServerConvertRequest(RoundQueries, ConvertUpstream, FALSE)
    \/ ClientConvertRequest(RoundQueries, ConvertUpstream, Backends, FALSE)

SpecRound == InitConvert /\ [][NextRound]_vars

\* C22: a successful convert response has a result of two decimals and a
\* rate of six decimals, and its result is round(amount * rate, 2),
\* whether it came from the provider, from the cache or from the static
\* table.
C22_TwoAndSixDecimals ==
    (last.op = "convert" /\ last.resp.success)
    => /\ last.resp.result % 10 = 0
       /\ last.resp.rate % 10 = 0
       /\ LET diff == (last.resp.result \div 10) * 10000000
                        - last.q.arg * (last.resp.rate \div 10)
          IN  diff <= 5000000 /\ diff > 0 - 5000000

-----------------------------------------------------------------------------
(* C23: there and back on the static table *)

\* The pairs whose rate is within the integers of the checker in both
\* directions, with 0.01, 1.00 and 8.99; and 1 KRW to USD
TripQueries ==
    {Query(pair[1], pair[2], TRUE, amount) :
        pair \in {p \in TablePairs : <<p[2], p[1]>> \in TablePairs},
        amount \in TableAmounts}
    \cup {Query("KRW", "USD", TRUE, 1000)}

\* The result of the last conversion is converted back by
\* CurrencyAPI.convert
ConvertBack(U, B) ==
    /\ family = "convert"
    /\ last.op = "convert" /\ last.resp.success
    /\ \E backend \in B :
        \E up \in Reached(backend, U) :
            LET q == Query(last.resp.to, last.resp.from, TRUE,
                           last.resp.result)
                r == ClientConvert(convCache, now, q, backend, up)
            IN  /\ convCache' = r.cache
                /\ last' = [side |-> "client", op |-> "convert.back",
                            q |-> q, up |-> UpClass(up),
                            backend |-> backend, trace |-> r.trace,
                            shitAge |-> r.hitAge, chitAge |-> NoAge,
                            resp |-> r.resp]
    /\ Record(TRUE)
    /\ UNCHANGED <<family, now, symCache, tsCache, clientCache>>
    /\ UNCHANGED <<calls, ui, historyVars>>

InitTrip ==
    /\ family = "convert"
    /\ now = 0
    /\ convCache = NoFile
    /\ symCache = NoFile
    /\ tsCache = NoFile
    /\ clientCache = NoFile
    /\ last \in {Asked(q) : q \in TripQueries}
    /\ hist = NoHist
    /\ calls = [c \in Callers |-> NoCall]
    /\ ui = NoUi
    /\ HistoryInit

NextTrip ==
    \/ Unasked /\ ServerConvertRequest({last.q}, FailedUpstream, TRUE)
    \/ Unasked /\ ClientConvertRequest({last.q}, FailedUpstream, Backends,
                                       TRUE)
    \/ ConvertBack(FailedUpstream, Backends)

SpecTrip == InitTrip /\ [][NextTrip]_vars

\* back is within 0.005 * (1 + ta / tb) of amount (both in thousandths)
WithinTolerance(back, amount, ta, tb) ==
    LET diff == IF back >= amount THEN back - amount ELSE amount - back
    IN  diff <= 20000 /\ diff * tb <= 5 * (ta + tb)

-----------------------------------------------------------------------------
(* C24: the letter case of the codes *)

\* The same requests in capitals and in small letters
CaseConvertQueries ==
    {Query("USD", "EUR", TRUE, Hundred), Query("usd", "eur", TRUE, Hundred)}

CaseSeriesQueries ==
    {Query("USD", "EUR", TRUE, 7), Query("usd", "eur", TRUE, 7)}

InitCase ==
    /\ family \in {"convert", "timeseries"}
    /\ RateInit
    /\ HistoryInit

\* The operations that keep a cache under a key made of the codes, with
\* the provider answering, all within one second
NextCase ==
    \/ ServerConvertRequest(CaseConvertQueries, {"ok"}, TRUE)
    \/ ServerTimeseriesRequest(CaseSeriesQueries, {"ok"}, TRUE)
    \/ ClientTimeseriesRequest(CaseSeriesQueries, {"ok"}, {FALSE}, TRUE)

SpecCase == InitCase /\ [][NextCase]_vars

\* The last two calls are the same operation on the same side, and their
\* parameters differ in the letter case of the codes only
CaseCall ==
    /\ hist.prev.side # "none"
    /\ hist.prev.side = last.side
    /\ hist.prev.op = last.op
    /\ hist.prev.q # last.q
    /\ Upper(hist.prev.q.from) = Upper(last.q.from)
    /\ Upper(hist.prev.q.to) = Upper(last.q.to)
    /\ hist.prev.q.hasArg = last.q.hasArg
    /\ hist.prev.q.arg = last.q.arg

\* C24: after a call that left an entry in its cache, a call of the same
\* operation within the TTL whose codes differ in letter case only is a
\* hit of that cache, on the endpoints and in the client.
C24_KeyIgnoresLetterCase ==
    (CaseCall /\ WithinTTL /\ Stored(hist.prev))
    => Has(last.trace,
           IF last.side = "server" THEN "s.cache.hit" ELSE "c.cache.hit")

-----------------------------------------------------------------------------
(* C27: the TTL of each cache *)

\* The file of the endpoint's cache a request looks for
ServerKey(l) ==
    CASE l.op = "convert" ->
            ConvertCacheKey(Upper(l.q.from), Upper(l.q.to), l.q.arg)
      [] l.op = "symbols" -> SymbolsFile
      [] OTHER ->
            TimeseriesCacheKey(Upper(l.q.from), Upper(l.q.to),
                               TimeseriesDays(l.q))

\* The cache directory of an operation
ServerCache(op) ==
    CASE op = "convert" -> convCache
      [] op = "symbols" -> symCache
      [] OTHER -> tsCache

\* The cache holds an entry under key that is younger than ttl seconds
Younger(cache, key, ttl) ==
    key \in DOMAIN cache /\ now - cache[key].mtime < ttl

\* A request that looks into a cache is served from it exactly when the
\* cache holds an entry for its key younger than the TTL of the operation
\* (serverTTL, clientTTL: seconds by operation)
ServedByAge(serverTTL, clientTTL) ==
    /\ (Has(last'.trace, "s.cache.hit") \/ Has(last'.trace, "s.cache.miss"))
        => (Has(last'.trace, "s.cache.hit")
            <=> Younger(ServerCache(last'.op), ServerKey(last'),
                        serverTTL[last'.op]))
    /\ (Has(last'.trace, "c.cache.hit") \/ Has(last'.trace, "c.cache.miss"))
        => (Has(last'.trace, "c.cache.hit")
            <=> Younger(clientCache, ClientKey(last'), clientTTL[last'.op]))

\* C27 as stated: one hour for symbols, five minutes for convert and for
\* time series, on the endpoints and in the client.
C27_HourAndFiveMinutes ==
    [][last' # last
        => ServedByAge(
            [symbols |-> 3600, convert |-> 300, timeseries |-> 300],
            [symbols |-> 3600, convert |-> 300, timeseries |-> 300])]_vars

\* C27: on the endpoints an entry is served until it is one hour old for
\* symbols, five minutes for convert and thirty minutes for time series;
\* in the client every entry (symbols, time series) is served until it is
\* five minutes old; and none beyond.
C27_TTLOfEachCache ==
    [][last' # last
        => ServedByAge(
            [symbols |-> 3600, convert |-> 300, timeseries |-> 1800],
            [symbols |-> 300, convert |-> 300, timeseries |-> 300])]_vars

\* C27 witness: the timeseries endpoint served an entry that was five
\* minutes old.
C27_Witness ==
    /\ last.op = "timeseries" /\ last.side = "server"
    /\ last.trace = <<"s.cache.hit">>
    /\ last.shitAge = 300
    /\ last.resp.cached = "true"

-----------------------------------------------------------------------------
(* C29: one attempt per request *)

\* How many steps of a trace are among the tokens
Count(trace, tokens) ==
    Cardinality({i \in 1..Len(trace) : trace[i] \in tokens})

\* C29: a request calls the provider at most once and the client calls
\* the endpoint at most once; after the failed call the request goes on to
\* its catch block (the static data, or the error answer) and makes no
\* other call.
C29_NoRetry ==
    /\ Count(last.trace, {"live.ok", "live.fail"}) <= 1
    /\ Count(last.trace, {"backend.ok", "backend.fail"}) <= 1
    /\ \A i \in 1..Len(last.trace) :
        /\ last.trace[i] = "live.fail"
            => /\ i < Len(last.trace)
               /\ last.trace[i + 1] \in {"s.fallback.ok", "s.error",
                    "s.fallback.unsupported", "s.fallback.crash"}
        /\ last.trace[i] = "backend.fail"
            => /\ i < Len(last.trace)
               /\ last.trace[i + 1] \in {"c.fallback.ok",
                    "c.fallback.unsupported"}

\* C29 witness: getTimeSeries called the endpoint once, the endpoint the
\* provider once; both calls failed and the static series was returned.
C29_Witness ==
    /\ last.op = "timeseries" /\ last.side = "client"
    /\ last.trace = <<"c.cache.miss", "s.cache.miss", "live.fail",
                      "s.error", "backend.fail", "c.fallback.ok">>

-----------------------------------------------------------------------------
(* C30: the requests of one cache key *)

\* Requests whose codes differ and whose concatenations agree, beside
\* requests that differ in the amount, the direction or the days
KeyConvertQueries ==
    {Query("USD", "EUR", TRUE, Hundred), Query("USDE", "UR", TRUE, Hundred),
     Query("USD", "EUR", TRUE, 2 * Hundred),
     Query("EUR", "USD", TRUE, Hundred)}

KeySeriesQueries ==
    {Query("USD", "EUR", TRUE, 7), Query("USDE", "UR", TRUE, 7),
     Query("USD", "EUR", TRUE, 30), Query("EUR", "USD", TRUE, 7)}

InitKeys ==
    /\ family \in {"convert", "timeseries"}
    /\ RateInit
    /\ HistoryInit

NextKeys ==
    \/ Tick
    \/ ServerConvertRequest(KeyConvertQueries, {"ok", "network"}, FALSE)
    \/ ServerTimeseriesRequest(KeySeriesQueries, {"ok", "network"}, FALSE)

SpecKeys == InitKeys /\ [][NextKeys]_vars

\* C30: an answer served from a cache file is the answer stored for the
\* request's own normalized from, to and amount (or days).
C30_HitIsOwnRequest ==
    (/\ last.side = "server"
     /\ last.op \in {"convert", "timeseries"}
     /\ last.trace = <<"s.cache.hit">>)
        => /\ last.resp.from = Upper(last.q.from)
           /\ last.resp.to = Upper(last.q.to)
           /\ last.op = "convert" => last.resp.amount = last.q.arg
           /\ last.op = "timeseries"
                => last.resp.days = TimeseriesDays(last.q)

-----------------------------------------------------------------------------
(* C25: cache files that hold no JSON *)

\* What is left of a file whose write did not complete
Damages == {"empty", "torn"}

\* The cache with the file `key` damaged; its modification time stays
Damaged(cache, key, c) == [cache EXCEPT ![key].content = c]

\* A cache file loses its content: a write by file_put_contents that was
\* cut short (the file is truncated first, then filled).
DamageFile ==
    /\ \E c \in Damages :
        \/ /\ family = "convert"
           /\ \E k \in DOMAIN convCache :
                /\ convCache[k].content = "json"
                /\ convCache' = Damaged(convCache, k, c)
           /\ UNCHANGED <<symCache, tsCache>>
        \/ /\ family = "symbols"
           /\ \E k \in DOMAIN symCache :
                /\ symCache[k].content = "json"
                /\ symCache' = Damaged(symCache, k, c)
           /\ UNCHANGED <<convCache, tsCache>>
        \/ /\ family = "timeseries"
           /\ \E k \in DOMAIN tsCache :
                /\ tsCache[k].content = "json"
                /\ tsCache' = Damaged(tsCache, k, c)
           /\ UNCHANGED <<convCache, symCache>>
    /\ UNCHANGED <<family, now, clientCache, last, hist>>
    /\ UNCHANGED <<calls, ui, historyVars>>

DamageConvertQueries ==
    {Query("USD", "EUR", TRUE, Hundred), Query("EUR", "USD", TRUE, Hundred)}

DamageSeriesQueries ==
    {Query("USD", "EUR", TRUE, 7), Query("EUR", "USD", TRUE, 7)}

NextDamage ==
    \/ Tick
    \/ DamageFile
    \/ ServerConvertRequest(DamageConvertQueries, {"ok", "network"}, FALSE)
    \/ ServerSymbolsRequest(FALSE)
    \/ ServerTimeseriesRequest(DamageSeriesQueries, {"ok", "network"}, FALSE)

SpecDamage == Init /\ [][NextDamage]_vars

\* The request of last' finds its cache file without JSON in it
FindsDamaged ==
    /\ last'.side = "server"
    /\ ServerKey(last') \in DOMAIN ServerCache(last'.op)
    /\ ServerCache(last'.op)[ServerKey(last')].content # "json"

\* C25: a request that finds its cache file empty, torn or otherwise
\* without JSON treats it as a miss: it goes on to the provider and does
\* not answer from the file.
C25_DamagedEntryIsMiss ==
    [][(last' # last /\ FindsDamaged)
        => /\ last'.trace[1] = "s.cache.miss"
           /\ last'.resp.cached # "true"
           /\ last'.resp.error # "malformed"]_vars

-----------------------------------------------------------------------------
(* C26: two requests of one cache key at once *)

\* The request both callers make, and its cache keys
RaceQuery == Query("USD", "EUR", TRUE, Hundred)

RaceFile == ConvertCacheKey("USD", "EUR", Hundred)

RaceSeries == Query("USD", "EUR", TRUE, 7)

\* The provider's rate of USD to EUR at three instants, in 10^-7
QuotedRates == {9200000, 9215000, 9300000}

\* The live response for the rate the provider quotes
ConvertQuoted(from, to, amount, rate) ==
    [ConvertLive(from, to, amount) EXCEPT !.rate = rate,
        !.result = RoundDiv(amount * (rate \div 1000), 10000)]

\* The digits of n (n >= 0)
RECURSIVE Digits(_)
Digits(n) == IF n < 10 THEN 1 ELSE 1 + Digits(n \div 10)

\* The digits of the k-digit fraction f that json_encode prints: none of
\* the zeros at its end
RECURSIVE FractionDigits(_, _)
FractionDigits(f, k) ==
    IF f = 0 THEN 0
    ELSE IF f % 10 = 0 THEN FractionDigits(f \div 10, k - 1)
    ELSE k

\* 10^k
RECURSIVE Power10(_)
Power10(k) == IF k = 0 THEN 1 ELSE 10 * Power10(k - 1)

\* The characters json_encode prints for the number n / 10^k
NumberLength(n, k) ==
    LET f == FractionDigits(n % Power10(k), k)
    IN  Digits(n \div Power10(k)) + (IF f = 0 THEN 0 ELSE 1 + f)

\* The length of json_encode($result), up to what all responses share
TextLength(resp) ==
    Len(resp.from) + Len(resp.to) + NumberLength(resp.amount, 3)
        + NumberLength(resp.result, 3) + NumberLength(resp.rate, 7)

\* The bytes in the file
FileLength(entry) ==
    IF entry.content = "empty" THEN 0 ELSE TextLength(entry.data)

\* The number of the next write
NextWrite == 1 + Cardinality({c \in Callers : calls[c].wrote > 0})

\* convert.php, step 1: the request looks at its cache file
RaceReadCache(p) ==
    /\ family = "race.server"
    /\ calls[p].pc = "idle"
    /\ calls' = [calls EXCEPT ![p] =
            IF /\ IsFresh(convCache, RaceFile, now, ConvertCacheTime)
               /\ NonEmpty(convCache[RaceFile])
            THEN [@ EXCEPT !.pc = "done", !.op = "convert",
                     !.resp = [JsonDecode(convCache[RaceFile])
                                  EXCEPT !.cached = "true"]]
            ELSE [@ EXCEPT !.pc = "missed", !.op = "convert"]]
    /\ UNCHANGED <<family, now, convCache, symCache, tsCache, clientCache,
                   last, hist>>
    /\ UNCHANGED <<ui, historyVars>>

\* step 2: the provider is called and $result is built
RaceCallProvider(p) ==
    /\ family = "race.server"
    /\ calls[p].pc = "missed"
    /\ \E rate \in QuotedRates :
        calls' = [calls EXCEPT ![p].pc = "fetched",
                     ![p].resp = ConvertQuoted("USD", "EUR", Hundred, rate)]
    /\ UNCHANGED <<family, now, convCache, symCache, tsCache, clientCache,
                   last, hist>>
    /\ UNCHANGED <<ui, historyVars>>

\* step 3: file_put_contents opens the file for writing, which empties it
\* (no LOCK_EX: nothing keeps two requests from doing so together)
RaceOpenFile(p) ==
    /\ family = "race.server"
    /\ calls[p].pc = "fetched"
    /\ convCache' =
        Damaged(PutFile(convCache, RaceFile, now, NoResp), RaceFile, "empty")
    /\ calls' = [calls EXCEPT ![p].pc = "opened"]
    /\ UNCHANGED <<family, now, symCache, tsCache, clientCache, last, hist>>
    /\ UNCHANGED <<ui, historyVars>>

\* step 4: the text is written from the start of the file, over what is
\* there, and the response is echoed.  Text beyond its end stays.
RaceWriteFile(p) ==
    /\ family = "race.server"
    /\ calls[p].pc = "opened"
    /\ convCache' =
        IF FileLength(convCache[RaceFile]) <= TextLength(calls[p].resp)
        THEN PutFile(convCache, RaceFile, now, calls[p].resp)
        ELSE Damaged(convCache, RaceFile, "torn")
    /\ calls' = [calls EXCEPT ![p].pc = "done", ![p].wrote = NextWrite]
    /\ UNCHANGED <<family, now, symCache, tsCache, clientCache, last, hist>>
    /\ UNCHANGED <<ui, historyVars>>

\* getTimeSeries, up to its await: the Map is looked at
RaceCheckMap(p) ==
    /\ family = "race.client"
    /\ calls[p].pc = "idle"
    /\ calls' = [calls EXCEPT ![p] =
            IF ClientFresh(clientCache, ClientTimeseriesKey(RaceSeries), now)
            THEN [@ EXCEPT !.pc = "done", !.op = "timeseries",
                     !.resp =
                        clientCache[ClientTimeseriesKey(RaceSeries)].data]
            ELSE [@ EXCEPT !.pc = "awaiting", !.op = "timeseries"]]
    /\ UNCHANGED <<family, now, convCache, symCache, tsCache, clientCache,
                   last, hist>>
    /\ UNCHANGED <<ui, historyVars>>

\* getTimeSeries after its await: the endpoint's answer is put into the
\* Map and returned
RaceSetMap(p) ==
    /\ family = "race.client"
    /\ calls[p].pc = "awaiting"
    /\ \E up \in {"ok", "ok_partial"} :
        LET data == TimeseriesResult("USD", "EUR", 7, up)
        IN  /\ clientCache' =
                CacheSet(clientCache, ClientTimeseriesKey(RaceSeries), now,
                         data)
            /\ calls' = [calls EXCEPT ![p].pc = "done", ![p].resp = data,
                            ![p].wrote = NextWrite]
    /\ UNCHANGED <<family, now, convCache, symCache, tsCache, last, hist>>
    /\ UNCHANGED <<ui, historyVars>>

InitRace ==
    /\ family \in {"race.server", "race.client"}
    /\ RateInit
    /\ HistoryInit

NextRace ==
    \E p \in Callers :
        \/ RaceReadCache(p)
        \/ RaceCallProvider(p)
        \/ RaceOpenFile(p)
        \/ RaceWriteFile(p)
        \/ RaceCheckMap(p)
        \/ RaceSetMap(p)

SpecRace == InitRace /\ [][NextRace]_vars

\* Both requests missed, wrote and returned
BothWrote == \A c \in Callers : calls[c].pc = "done" /\ calls[c].wrote > 0

\* The request that wrote last
LastWriter == CHOOSE c \in Callers : calls[c].wrote = Cardinality(Callers)

\* C26: when two requests of one key both missed and have finished, each
\* has returned a complete success response and the cache holds exactly
\* what the request that wrote last has written.
C26_LastWriterWins ==
    BothWrote
        => /\ \A c \in Callers :
                calls[c].resp.http = 200 /\ calls[c].resp.success
           /\ family = "race.server"
                => /\ convCache[RaceFile].content = "json"
                   /\ convCache[RaceFile].data = calls[LastWriter].resp
           /\ family = "race.client"
                => clientCache[ClientTimeseriesKey(RaceSeries)].data
                        = calls[LastWriter].resp

-----------------------------------------------------------------------------
(* C28: calls over the network and their timeouts *)

\* The calls of CurrencyAPI that go through request()
NetOps == {"symbols", "convert", "timeseries", "history"}

\* The way from the browser to the endpoint: it answers, the connection
\* fails, or the request is accepted and nothing ever comes back
NetStates == {"up", "refused", "silent"}

\* The provider as the endpoint's file_get_contents meets it
ProviderStates == {"answers", "fails", "silent"}

\* history.php calls nobody
ProvidersOf(op) == IF op = "history" THEN {"none"} ELSE ProviderStates

\* What an endpoint answers from its try block
EndpointAnswer == [NoResp EXCEPT !.http = 200, !.success = TRUE,
                      !.cached = "false"]

\* What an endpoint answers from its catch block: the static data of
\* convert and symbols, the 400 of timeseries
EndpointCatch(op) ==
    IF op = "timeseries" THEN TimeseriesCatch("upstream")
    ELSE [NoResp EXCEPT !.http = 200, !.success = TRUE, !.fallback = TRUE]

\* What the catch block of a client call returns: its own static data
ClientCatchAnswer ==
    [NoResp EXCEPT !.http = 200, !.success = TRUE, !.fallback = TRUE]

\* A client call begins: request() calls fetch(url, config), with no
\* signal and no timer, and awaits it
CallRequest(p) ==
    /\ family = "network"
    /\ calls[p].pc = "idle"
    /\ \E op \in NetOps, net \in NetStates :
        \E provider \in ProvidersOf(op) :
            calls' = [calls EXCEPT ![p] =
                        [@ EXCEPT !.pc = "fetching", !.op = op, !.net = net,
                            !.provider = provider]]
    /\ UNCHANGED <<family, now, convCache, symCache, tsCache, clientCache,
                   last, hist>>
    /\ UNCHANGED <<ui, historyVars>>

\* The endpoint receives the request and runs up to its call of the
\* provider; history.php answers at once
EndpointRuns(p) ==
    /\ family = "network"
    /\ calls[p].pc = "fetching"
    /\ calls[p].net = "up"
    /\ calls' = [calls EXCEPT ![p] =
                    IF @.op = "history"
                    THEN [@ EXCEPT !.pc = "answered", !.resp = EndpointAnswer]
                    ELSE [@ EXCEPT !.pc = "upstream"]]
    /\ UNCHANGED <<family, now, convCache, symCache, tsCache, clientCache,
                   last, hist>>
    /\ UNCHANGED <<ui, historyVars>>

\* file_get_contents returns the provider's body, or false at once
ProviderReturns(p) ==
    /\ family = "network"
    /\ calls[p].pc = "upstream"
    /\ calls[p].provider \in {"answers", "fails"}
    /\ calls' = [calls EXCEPT ![p].pc = "answered",
                    ![p].resp = IF calls[p].provider = "answers"
                                THEN EndpointAnswer
                                ELSE EndpointCatch(calls[p].op)]
    /\ UNCHANGED <<family, now, convCache, symCache, tsCache, clientCache,
                   last, hist>>
    /\ UNCHANGED <<ui, historyVars>>

\* The 'timeout' of the stream context runs out: file_get_contents
\* returns false and the endpoint goes to its catch block
StreamTimeout(p) ==
    /\ family = "network"
    /\ calls[p].pc = "upstream"
    /\ calls[p].provider = "silent"
    /\ calls' = [calls EXCEPT ![p].pc = "answered",
                    ![p].resp = EndpointCatch(calls[p].op)]
    /\ UNCHANGED <<family, now, convCache, symCache, tsCache, clientCache,
                   last, hist>>
    /\ UNCHANGED <<ui, historyVars>>

\* The promise of fetch settles: with the endpoint's answer (a status
\* that is not ok is thrown), or rejected when the connection failed; the
\* call returns the answer or its catch block's data
FetchSettles(p) ==
    /\ family = "network"
    /\ \/ calls[p].pc = "answered"
       \/ calls[p].pc = "fetching" /\ calls[p].net = "refused"
    /\ calls' = [calls EXCEPT ![p].pc = "done",
                    ![p].resp = IF calls[p].pc = "answered"
                                    /\ calls[p].resp.http = 200
                                THEN calls[p].resp
                                ELSE ClientCatchAnswer]
    /\ UNCHANGED <<family, now, convCache, symCache, tsCache, clientCache,
                   last, hist>>
    /\ UNCHANGED <<ui, historyVars>>

InitNetwork ==
    /\ family = "network"
    /\ RateInit
    /\ HistoryInit

NextNetwork ==
    \E p \in Callers :
        \/ CallRequest(p)
        \/ EndpointRuns(p)
        \/ ProviderReturns(p)
        \/ StreamTimeout(p)
        \/ FetchSettles(p)

\* The PHP runtime, its stream timer and the browser's event loop each
\* take the step they can take.
SpecNetwork ==
    /\ InitNetwork
    /\ [][NextNetwork]_vars
    /\ \A p \in Callers :
        /\ WF_vars(EndpointRuns(p))
        /\ WF_vars(ProviderReturns(p))
        /\ WF_vars(StreamTimeout(p))
        /\ WF_vars(FetchSettles(p))

\* C28: every call that was begun completes, with a result or an error,
\* whatever the remote side does.
C28_EveryCallCompletes ==
    \A p \in Callers :
        (calls[p].pc = "fetching") ~> (calls[p].pc = "done")

-----------------------------------------------------------------------------
(* C34: the built-in symbols and the built-in rates *)

\* The codes a user picks from a list of symbols
PickCodes == {"USD", "EUR", "CZK", "TL", "UA"}

\* The list of symbols was returned; a pair is picked from it and
\* converted by the side that returned the list
PickPairRequest(Codes, U, B) ==
    /\ family = "symbols"
    /\ last.op = "symbols"
    /\ last.resp.success
    /\ \E from \in last.resp.symbols \cap Codes,
          to \in last.resp.symbols \cap Codes, backend \in B :
        \E up \in Reached(backend, U) :
            LET q == Query(from, to, TRUE, 1000)
                r == IF last.side = "server"
                     THEN ServerConvert(convCache, now, q, up, TRUE)
                     ELSE ClientConvert(convCache, now, q, backend, up)
            IN  /\ from # to
                /\ convCache' = r.cache
                /\ last' = [side |-> last.side, op |-> "convert", q |-> q,
                            up |-> UpClass(up),
                            backend |-> IF last.side = "server" THEN "none"
                                        ELSE backend,
                            trace |-> r.trace, shitAge |-> r.hitAge,
                            chitAge |-> NoAge, resp |-> r.resp]
    /\ Record(TRUE)
    /\ UNCHANGED <<family, now, symCache, tsCache, clientCache>>
    /\ UNCHANGED <<calls, ui, historyVars>>

InitPick ==
    /\ family = "symbols"
    /\ RateInit
    /\ HistoryInit

NextPick ==
    \/ ServerSymbolsRequest(TRUE)
    \/ ClientSymbolsRequest(TRUE)
    \/ PickPairRequest(PickCodes, FailedUpstream, Backends)

SpecPick == InitPick /\ [][NextPick]_vars

\* The pair of last was picked from a built-in list of symbols and was
\* converted by the built-in rates of the side that gave the list
PickedFromFallback ==
    /\ last.op = "convert"
    /\ hist.prev.op = "symbols"
    /\ hist.prev.resp.fallback
    /\ \/ /\ hist.prev.resp.symbols = fallbackSymbolsServer
          /\ \E i \in 1..Len(last.trace) :
                last.trace[i] \in {"s.fallback.ok", "s.fallback.unsupported"}
       \/ /\ hist.prev.resp.symbols = fallbackSymbols
          /\ \E i \in 1..Len(last.trace) :
                last.trace[i] \in {"c.fallback.ok", "c.fallback.unsupported"}

\* C34: a pair picked from a built-in list of symbols is converted by the
\* built-in rates of the same side, never refused as not supported.
C34_FallbackListConvertible ==
    PickedFromFallback
        => /\ last.resp.success
           /\ ~Has(last.trace, "s.fallback.unsupported")
           /\ ~Has(last.trace, "c.fallback.unsupported")

-----------------------------------------------------------------------------
(* C33: series that were not received from the provider *)

\* The rates of a response were made up: by generateMockData ("mock") or
\* by the catch block of getTimeSeries ("static")
Synthesized(resp) == resp.series \in {"mock", "static"}

\* C33: a series that was made up carries fallback = true and is built
\* around the static rate of its pair, in the response and in every cache
\* that holds it.
C33_SynthesizedIsMarked ==
    /\ (last.op = "timeseries" /\ Synthesized(last.resp))
        => last.resp.fallback /\ last.resp.series = "static"
    /\ \A k \in DOMAIN tsCache :
        Synthesized(tsCache[k].data)
            => tsCache[k].data.fallback /\ tsCache[k].data.series = "static"
    /\ \A k \in DOMAIN clientCache :
        Synthesized(clientCache[k].data)
            => /\ clientCache[k].data.fallback
               /\ clientCache[k].data.series = "static"

-----------------------------------------------------------------------------
(* C31, C32: the history while the endpoint comes and goes *)

\* The step is a list call that follows a call `op` of the same caller
\* which returned success; each call finds the endpoint up or down
ListAfter(op) ==
    /\ reply.op = op
    /\ reply.resp.success
    /\ reply'.op = "get"
    /\ reply'.side = reply.side

\* C31: the list that follows a successful clear is empty, whether the
\* endpoint was reached by the one call, by the other, by both or by none.
C31_ClearedStaysEmpty ==
    [][ListAfter("clear") => reply'.resp.history = <<>>]_vars

\* C32: the list that follows a successful append of a well-formed record
\* has that record as its first element, whether the endpoint was reached
\* by the one call, by the other, by both or by none.
C32_AppendedIsListedFirst ==
    [][(ListAfter("post") /\ reply.input = GoodRecord(reply.input.date))
        => /\ reply'.resp.history # <<>>
           /\ reply'.resp.history[1].date = reply.input.date]_vars

-----------------------------------------------------------------------------
(* C35: the chart and the loads that are under way *)

\* The calls of loadChartData in one run
MaxLoads == 3

\* What the page can select: a pair, another pair, another period
ChartSelections ==
    {Selection("USD", "EUR", 30), Selection("USD", "GBP", 30),
     Selection("USD", "EUR", 7)}

ChartFamilies == {"main.js", "Chart.jsx"}

\* The currencies or the period change: the handler stores the selection
\* and calls loadChartData, which reads it, calls getTimeSeries and awaits
ChartSelect(sel) ==
    /\ family \in ChartFamilies
    /\ ui.loads < MaxLoads
    /\ ui' = [ui EXCEPT !.selected = sel, !.loads = @ + 1,
                 !.pending = @ \cup {[id |-> ui.loads + 1, sel |-> sel]}]
    /\ UNCHANGED <<family, now, convCache, symCache, tsCache, clientCache,
                   last, hist, calls>>
    /\ UNCHANGED historyVars

\* One of the awaited calls returns, whichever: loadChartData goes on with
\* updateChart(data) (setChartData), or with the error of its catch block
ChartArrive(id, ok) ==
    /\ family \in ChartFamilies
    /\ \E load \in ui.pending :
        /\ load.id = id
        /\ ui' = [ui EXCEPT !.pending = @ \ {load},
                     !.shown = [sel |-> load.sel, ok |-> ok]]
    /\ UNCHANGED <<family, now, convCache, symCache, tsCache, clientCache,
                   last, hist, calls>>
    /\ UNCHANGED historyVars

InitChart ==
    /\ family \in ChartFamilies
    /\ RateInit
    /\ HistoryInit

NextChart ==
    \/ \E sel \in ChartSelections : ChartSelect(sel)
    \/ \E id \in 1..MaxLoads, ok \in BOOLEAN : ChartArrive(id, ok)

SpecChart == InitChart /\ [][NextChart]_vars

\* C35: once every load has returned, the chart shows the series of the
\* selection made last.
C35_LatestSeriesShown ==
    (ui.loads > 0 /\ ui.pending = {}) => ui.shown.sel = ui.selected

-----------------------------------------------------------------------------
(* C36: the converter form while a conversion is under way *)

\* The submits of one run
MaxSubmits == 4

\* handleSubmit without its test of isLoading
handleSubmitUnguarded(u, q) ==
    IF SubmitInvalid(q)
    THEN [u EXCEPT !.submits = @ + 1, !.display = "error"]
    ELSE [u EXCEPT !.submits = @ + 1, !.started = @ + 1,
             !.isLoading = TRUE, !.display = "hidden",
             !.conversions =
                @ \cup {[id |-> u.started + 1, pc |-> "converting",
                         q |-> q]}]

\* handleSubmit, and convert up to its await: nothing while isLoading; the
\* error of the validation; else setLoading(true), hideResult() and the
\* call of currencyAPI.convert
handleSubmit(u, q) ==
    IF u.isLoading
    THEN [u EXCEPT !.submits = @ + 1, !.ignored = @ + 1]
    ELSE IF SubmitInvalid(q)
    THEN [u EXCEPT !.submits = @ + 1, !.display = "error"]
    ELSE [u EXCEPT !.submits = @ + 1, !.started = @ + 1,
             !.isLoading = TRUE, !.display = "hidden",
             !.conversions =
                @ \cup {[id |-> u.started + 1, pc |-> "converting",
                         q |-> q]}]

\* The finally block of convert: setLoading(false)
ConvertFinally(u, conversion) ==
    [u EXCEPT !.conversions = @ \ {conversion}, !.ended = @ + 1,
        !.isLoading = FALSE]

\* The form is submitted
FormSubmit(q) ==
    /\ family = "converter.js"
    /\ ui.submits < MaxSubmits
    /\ ui' = handleSubmit(ui, q)
    /\ UNCHANGED <<family, now, convCache, symCache, tsCache, clientCache,
                   last, hist, calls>>
    /\ UNCHANGED historyVars

\* currencyAPI.convert returns: the result is displayed and saveToHistory
\* is awaited, or it threw: the error is shown and convert ends
ConvertReturns(id, ok) ==
    /\ family = "converter.js"
    /\ \E c \in ui.conversions :
        /\ c.id = id
        /\ c.pc = "converting"
        /\ ui' = IF ok
                 THEN [ui EXCEPT !.lastConversion = c.q,
                          !.display = "result",
                          !.conversions =
                            (@ \ {c}) \cup {[c EXCEPT !.pc = "saving"]}]
                 ELSE ConvertFinally([ui EXCEPT !.display = "error"], c)
    /\ UNCHANGED <<family, now, convCache, symCache, tsCache, clientCache,
                   last, hist, calls>>
    /\ UNCHANGED historyVars

\* saveToHistory returns (it catches what saveHistory throws): the event
\* is dispatched and convert ends
SaveReturns(id) ==
    /\ family = "converter.js"
    /\ \E c \in ui.conversions :
        /\ c.id = id
        /\ c.pc = "saving"
        /\ ui' = ConvertFinally(ui, c)
    /\ UNCHANGED <<family, now, convCache, symCache, tsCache, clientCache,
                   last, hist, calls>>
    /\ UNCHANGED historyVars

NextForm ==
    \/ \E q \in ConverterQueries : FormSubmit(q)
    \/ \E id \in 1..MaxSubmits, ok \in BOOLEAN : ConvertReturns(id, ok)
    \/ \E id \in 1..MaxSubmits : SaveReturns(id)

SpecForm == InitConverter /\ [][NextForm]_vars

\* C36: at most one conversion is under way, and isLoading is true exactly
\* while one is; a submit made while isLoading starts none; when a
\* conversion ends, by its result or by its error, isLoading is false and
\* the next valid submit starts a conversion.
C36_OneConversionAtATime ==
    /\ [](/\ Cardinality(ui.conversions) <= 1
          /\ ui.isLoading <=> ui.conversions # {})
    /\ [][/\ (ui.isLoading /\ ui'.submits # ui.submits)
                => /\ ui'.conversions = ui.conversions
                   /\ ui'.started = ui.started
                   /\ ui'.ignored = ui.ignored + 1
          /\ ui'.ended # ui.ended
                => /\ ~ui'.isLoading
                   /\ handleSubmit(ui', Query("USD", "EUR", TRUE, Hundred))
                        .started = ui'.started + 1]_vars

\* C36 witness: a submit was ignored while a conversion was under way,
\* one conversion ended by its error and one by its result, and a later
\* submit has started the conversion now under way.
C36_Witness ==
    /\ ui.ignored > 0
    /\ ui.ended > 0
    /\ ui.started = ui.ended + 1
    /\ ui.isLoading
    /\ ui.display = "result"
    /\ \E c \in ui.conversions : c.id = ui.started /\ c.pc = "saving"

====
